---- MODULE Spec2Model ----
(***************************************************************************)
(* A model of two passes of the compiler front end:                        *)
(*   - build-hir/src/builder.rs: the incremental basic-block Builder and   *)
(*     the finalization pipeline run by Builder::build;                    *)
(*   - forget_semantic_analysis/src/analyzer.rs: the scope / label         *)
(*     Analyzer, a single traversal of the syntax tree.                    *)
(***************************************************************************)
EXTENDS Integers, Sequences, FiniteSets, TLC

(***************************************************************************)
(* Bounds of the model.                                                    *)
(***************************************************************************)
\* Number of terminate() calls on the Builder; block ids range over 0..MaxBlocks-1
\* for completed blocks, so a terminal may also name the block still open.
MaxBlocks == 3
\* Total number of push() calls on the Builder.
MaxPush == 2

\* Number of statements of the program the Analyzer visits.
MaxStmts == 4
\* Nesting depth of the visited statements (open visit_* calls).
MaxDepth == 4

\* Number of Builders created from the one Environment.
MaxBuilders == 2
\* Total number of calls made on those Builders.
MaxCalls == 5

\* Option::None for an optional id (ids are naturals).
None == -1

BlockIds == 0 .. (MaxBlocks - 1)
GotoKinds == {"Break", "Continue"}
BlockKinds == {"Block", "Value"}

(***************************************************************************)
(* TerminalValue: the five terminal shapes and their block references.     *)
(***************************************************************************)
IfTerminal(c, a, f) ==
    [tag |-> "If", consequent |-> c, alternate |-> a, fallthrough |-> f]
ForTerminal(i, b, u) ==
    [tag |-> "For", init |-> i, body |-> b, update |-> u]
DoWhileTerminal(b, t) ==
    [tag |-> "DoWhile", body |-> b, test |-> t]
GotoTerminal(b, k) ==
    [tag |-> "Goto", block |-> b, kind |-> k]
ReturnTerminal ==
    [tag |-> "Return"]

\* Every terminal shape over every block id.
GraphTerminals ==
    {IfTerminal(c, a, f) : c \in BlockIds, a \in BlockIds, f \in BlockIds \cup {None}}
    \cup {ForTerminal(i, b, u) : i \in BlockIds, b \in BlockIds,
                                 u \in BlockIds \cup {None}}
    \cup {DoWhileTerminal(b, t) : b \in BlockIds, t \in BlockIds}
    \cup {GotoTerminal(b, k) : b \in BlockIds, k \in GotoKinds}
    \cup {ReturnTerminal}

(***************************************************************************)
(* State.                                                                  *)
(***************************************************************************)
VARIABLES
    \* ---- Builder (builder.rs) ----
    env_next_block_id,  \* Environment: the next block id it hands out
    completed,          \* Builder.completed: IndexMap as a sequence of blocks
    entry,              \* Builder.entry
    wip,                \* Builder.wip: the open block
    id_gen,             \* Builder.id_gen: next instruction id
    pushes,             \* number of push() calls so far (bounds the model)
    bpc,                \* "building" | "built" | "panicked"
    hir,                \* the HIR returned by build()
    \* ---- Analyzer (analyzer.rs) ----
    manager,            \* Analyzer.manager: the ScopeManager
    labels,             \* Analyzer.labels: the stack of in-scope label ids
    current,            \* Analyzer.current: the current scope id
    unresolved,         \* Analyzer.unresolved: the pending references
    frames,             \* the open visit_* calls, outermost first
    next_node,          \* identity of the next syntax-tree node visited
    stmts,              \* number of statements visited so far (bounds the model)
    last,               \* the statement whose visit_* call ran last
    apc,                \* "visiting" | "panicked" | "done"
    \* ---- Builders that share one Environment (builder.rs) ----
    environment,        \* Environment: its id counters
    builders,           \* the Builders created from it, in creation order
    heap,               \* the Rc<RefCell<IdentifierData>> cells, by address
    minted,             \* every Identifier created, with its Builder and key
    ret,                \* the last call made and what it returned
    calls               \* number of calls made so far (bounds the model)

bvars == <<env_next_block_id, completed, entry, wip, id_gen, pushes, bpc, hir>>
avars == <<manager, labels, current, unresolved, frames, next_node, stmts, last, apc>>
evars == <<environment, builders, heap, minted, ret, calls>>
vars == <<bvars, avars, evars>>

(***************************************************************************)
(* IndexMap helpers: HIR.blocks is a sequence of blocks in map order.      *)
(***************************************************************************)
Keys(blocks) == {blocks[i].id : i \in 1 .. Len(blocks)}

IndexOf(blocks, id) == CHOOSE i \in 1 .. Len(blocks) : blocks[i].id = id

\* HIR::block / HIR::block_mut: the block under `id` (the caller checks HasBlock;
\* the code panics on a missing key).
HasBlock(h, id) == id \in Keys(h.blocks)
BlockOf(h, id) == h.blocks[IndexOf(h.blocks, id)]

\* An insert that writes over the entry inserted last.
MapInsertOverLast(blocks, block) ==
    IF blocks = <<>>
    THEN <<block>>
    ELSE [blocks EXCEPT ![Len(blocks)] = block]

\* IndexMap::insert: replaces the value in place under an existing key, else appends.
MapInsert(blocks, block) ==
    IF block.id \in Keys(blocks)
    THEN [blocks EXCEPT ![IndexOf(blocks, block.id)] = block]
    ELSE Append(blocks, block)

\* InstructionIdGenerator: new() and next().
InstructionIdGenerator_new == 0
IdGenNext(g) == [id |-> g, gen |-> g + 1]

\* TerminalValue::successors
successors(t) ==
    CASE t.tag = "If" -> <<t.consequent, t.alternate>>
      [] t.tag = "For" -> <<t.init>>
      [] t.tag = "DoWhile" -> <<t.body>>
      [] t.tag = "Goto" -> <<t.block>>
      [] t.tag = "Return" -> <<>>

\* TerminalValue::map_optional_fallthroughs, applied with the closure of
\* remove_unreachable_fallthroughs: keep a fallthrough that is a key of the map.
map_optional_fallthroughs(t, keep) ==
    IF t.tag = "If" /\ t.fallthrough # None /\ t.fallthrough \notin keep
    THEN [t EXCEPT !.fallthrough = None]
    ELSE t

(***************************************************************************)
(* Stage 1: reverse_postorder_blocks.                                      *)
(***************************************************************************)
RECURSIVE RpoVisit(_, _, _)
RpoVisit(block_id, h, st) ==
    IF ~st.ok \/ block_id \in st.visited
    THEN st
    ELSE
      LET st1 == [st EXCEPT !.visited = @ \cup {block_id}] IN
      IF ~HasBlock(h, block_id)
      THEN [st1 EXCEPT !.ok = FALSE]
      ELSE
        LET t == BlockOf(h, block_id).terminal.value
            st2 ==
              CASE t.tag = "If" ->
                     RpoVisit(t.consequent, h, RpoVisit(t.alternate, h, st1))
                [] t.tag = "For" -> RpoVisit(t.init, h, st1)
                [] t.tag = "DoWhile" -> RpoVisit(t.body, h, st1)
                [] t.tag = "Goto" -> RpoVisit(t.block, h, st1)
                [] t.tag = "Return" -> st1
        IN IF st2.ok
           THEN [st2 EXCEPT !.postorder = Append(@, block_id)]
           ELSE st2

\* The walk from the entry: [visited, postorder, ok]; ok = FALSE when hir.block()
\* panicked on a block id that is not in the map.
RpoWalk(h) ==
    RpoVisit(h.entry, h, [visited |-> {}, postorder |-> <<>>, ok |-> TRUE])

\* A reordering that forgets to reverse the post-order list.
reverse_postorder_blocks_not_reversed(h) ==
    LET post == RpoWalk(h).postorder
    IN [h EXCEPT !.blocks = [i \in 1 .. Len(post) |-> BlockOf(h, post[i])]]

\* A reordering that keeps the blocks the walk did not reach, after the others.
reverse_postorder_blocks_keep_unreached(h) ==
    LET post == RpoWalk(h).postorder
        n == Len(post)
        rest == SelectSeq(h.blocks, LAMBDA b : b.id \notin RpoWalk(h).visited)
    IN [h EXCEPT !.blocks = [i \in 1 .. n |-> BlockOf(h, post[n + 1 - i])] \o rest]

reverse_postorder_blocks(h) ==
    LET post == RpoWalk(h).postorder
        n == Len(post)
    IN [h EXCEPT !.blocks = [i \in 1 .. n |-> BlockOf(h, post[n + 1 - i])]]

(***************************************************************************)
(* Stage 2: remove_unreachable_for_updates.                                *)
(***************************************************************************)
\* A pruning whose membership test is inverted: it clears the reachable updates.
remove_reachable_for_updates(h) ==
    LET block_ids == Keys(h.blocks) IN
    [h EXCEPT !.blocks =
        [i \in 1 .. Len(h.blocks) |->
            LET block == h.blocks[i]
                t == block.terminal.value
            IN IF t.tag = "For" /\ t.update # None /\ t.update \in block_ids
               THEN [block EXCEPT !.terminal.value.update = None]
               ELSE block]]

remove_unreachable_for_updates(h) ==
    LET block_ids == Keys(h.blocks) IN
    [h EXCEPT !.blocks =
        [i \in 1 .. Len(h.blocks) |->
            LET block == h.blocks[i]
                t == block.terminal.value
            IN IF t.tag = "For" /\ t.update # None /\ t.update \notin block_ids
               THEN [block EXCEPT !.terminal.value.update = None]
               ELSE block]]

(***************************************************************************)
(* Stage 3: remove_unreachable_fallthroughs.                               *)
(***************************************************************************)
remove_unreachable_fallthroughs(h) ==
    LET block_ids == Keys(h.blocks) IN
    [h EXCEPT !.blocks =
        [i \in 1 .. Len(h.blocks) |->
            [h.blocks[i] EXCEPT !.terminal.value =
                map_optional_fallthroughs(@, block_ids)]]]

(***************************************************************************)
(* Stage 4: remove_unreachable_do_while_statements.                        *)
(***************************************************************************)
\* A rewrite that jumps to the unreachable test instead of the body.
remove_unreachable_do_while_to_test(h) ==
    LET block_ids == Keys(h.blocks) IN
    [h EXCEPT !.blocks =
        [i \in 1 .. Len(h.blocks) |->
            LET block == h.blocks[i]
                t == block.terminal.value
            IN IF t.tag = "DoWhile" /\ t.test \notin block_ids
               THEN [block EXCEPT !.terminal.value = GotoTerminal(t.test, "Break")]
               ELSE block]]

remove_unreachable_do_while_statements(h) ==
    LET block_ids == Keys(h.blocks) IN
    [h EXCEPT !.blocks =
        [i \in 1 .. Len(h.blocks) |->
            LET block == h.blocks[i]
                t == block.terminal.value
            IN IF t.tag = "DoWhile" /\ t.test \notin block_ids
               THEN [block EXCEPT !.terminal.value = GotoTerminal(t.body, "Break")]
               ELSE block]]

(***************************************************************************)
(* Stage 5: mark_instruction_ids.                                          *)
(***************************************************************************)
\* Number the instructions of one block from generator state g, then its terminal.
RECURSIVE MarkInstrs(_, _, _)
MarkInstrs(instrs, ix, g) ==
    IF ix > Len(instrs)
    THEN [instrs |-> instrs, gen |-> g]
    ELSE LET n == IdGenNext(g) IN
         MarkInstrs([instrs EXCEPT ![ix].id = n.id], ix + 1, n.gen)

RECURSIVE MarkBlocks(_, _, _)
MarkBlocks(blocks, block_ix, g) ==
    IF block_ix > Len(blocks)
    THEN blocks
    ELSE LET mi == MarkInstrs(blocks[block_ix].instructions, 1, g)
             n == IdGenNext(mi.gen)
         IN MarkBlocks(
              [blocks EXCEPT ![block_ix] =
                  [@ EXCEPT !.instructions = mi.instrs, !.terminal.id = n.id]],
              block_ix + 1, n.gen)

\* A renumbering that creates a new generator for every block.
RECURSIVE MarkBlocksPerBlock(_, _)
MarkBlocksPerBlock(blocks, block_ix) ==
    IF block_ix > Len(blocks)
    THEN blocks
    ELSE LET mi == MarkInstrs(blocks[block_ix].instructions, 1,
                              InstructionIdGenerator_new)
             n == IdGenNext(mi.gen)
         IN MarkBlocksPerBlock(
              [blocks EXCEPT ![block_ix] =
                  [@ EXCEPT !.instructions = mi.instrs, !.terminal.id = n.id]],
              block_ix + 1)

mark_instruction_ids_per_block(h) ==
    [h EXCEPT !.blocks = MarkBlocksPerBlock(h.blocks, 1)]

mark_instruction_ids(h) ==
    [h EXCEPT !.blocks = MarkBlocks(h.blocks, 1, InstructionIdGenerator_new)]

(***************************************************************************)
(* Stage 6: mark_predecessors.                                             *)
(***************************************************************************)
AddPred(h, block_id, prev_id) ==
    [h EXCEPT !.blocks[IndexOf(h.blocks, block_id)].predecessors = @ \cup {prev_id}]

RECURSIVE PredVisit(_, _, _)
RECURSIVE PredVisitAll(_, _, _, _)
\* st = [hir, visited, ok]; ok = FALSE when hir.block_mut() panicked.
PredVisit(block_id, prev_id, st) ==
    IF ~st.ok THEN st
    ELSE IF ~HasBlock(st.hir, block_id) THEN [st EXCEPT !.ok = FALSE]
    ELSE
      LET st1 == IF prev_id # None
                 THEN [st EXCEPT !.hir = AddPred(@, block_id, prev_id)]
                 ELSE st
      IN IF block_id \in st1.visited
         THEN st1
         ELSE PredVisitAll(successors(BlockOf(st1.hir, block_id).terminal.value), 1,
                           block_id, [st1 EXCEPT !.visited = @ \cup {block_id}])

PredVisitAll(succs, ix, block_id, st) ==
    IF ix > Len(succs)
    THEN st
    ELSE PredVisitAll(succs, ix + 1, block_id, PredVisit(succs[ix], block_id, st))

ClearPredecessors(h) ==
    [h EXCEPT !.blocks =
        [i \in 1 .. Len(h.blocks) |-> [h.blocks[i] EXCEPT !.predecessors = {}]]]

PredWalk(h) ==
    PredVisit(h.entry, None, [hir |-> ClearPredecessors(h), visited |-> {}, ok |-> TRUE])

\* A walk that checks `visited` before it records the incoming edge.
RECURSIVE PredVisitCheckFirst(_, _, _)
RECURSIVE PredVisitCheckFirstAll(_, _, _, _)
PredVisitCheckFirst(block_id, prev_id, st) ==
    IF ~st.ok THEN st
    ELSE IF ~HasBlock(st.hir, block_id) THEN [st EXCEPT !.ok = FALSE]
    ELSE IF block_id \in st.visited THEN st
    ELSE
      LET st1 == IF prev_id # None
                 THEN [st EXCEPT !.hir = AddPred(@, block_id, prev_id)]
                 ELSE st
      IN PredVisitCheckFirstAll(
            successors(BlockOf(st1.hir, block_id).terminal.value), 1,
            block_id, [st1 EXCEPT !.visited = @ \cup {block_id}])

PredVisitCheckFirstAll(succs, ix, block_id, st) ==
    IF ix > Len(succs)
    THEN st
    ELSE PredVisitCheckFirstAll(succs, ix + 1, block_id,
                                PredVisitCheckFirst(succs[ix], block_id, st))

mark_predecessors_check_first(h) ==
    PredVisitCheckFirst(h.entry, None,
        [hir |-> ClearPredecessors(h), visited |-> {}, ok |-> TRUE]).hir

mark_predecessors(h) == PredWalk(h).hir

(***************************************************************************)
(* Builder::build: the pipeline, with the state of `hir` after each stage. *)
(***************************************************************************)
InitialHIR == [entry |-> entry, blocks |-> completed]

\* build() panics: on an empty block map (the first assert!), or when the
\* reordering walk reaches a block id that is not a key of the map.
BuildPanics(h) ==
    \/ Len(h.blocks) = 0
    \/ ~RpoWalk(h).ok

AfterReorder(h) == reverse_postorder_blocks(h)
AfterForUpdates(h) == remove_unreachable_for_updates(AfterReorder(h))
AfterFallthroughs(h) == remove_unreachable_fallthroughs(AfterForUpdates(h))
AfterDoWhile(h) == remove_unreachable_do_while_statements(AfterFallthroughs(h))
AfterInstructionIds(h) == mark_instruction_ids(AfterDoWhile(h))
BuildResult(h) == mark_predecessors(AfterInstructionIds(h))


(***************************************************************************)
(* ScopeManager: scopes, declarations and labels are numbered from 1 in    *)
(* creation order; an id is the position of its record.                    *)
(***************************************************************************)
\* Option<String>: None is <<>>, Some(name) is <<name>>.
NoName == <<>>
SomeName(name) == <<name>>

\* DeclarationKind::from(VariableDeclarationKind)
DeclKind(kind) ==
    CASE kind = "var" -> "Var"
      [] kind = "let" -> "Let"
      [] kind = "const" -> "Const"

\* A map from syntax-tree nodes to ids, and HashMap::insert.
EmptyMap == <<>>
MapPut(f, k, v) == [x \in (DOMAIN f) \cup {k} |-> IF x = k THEN v ELSE f[x]]

\* ScopeManager::new: only the root scope exists.
ScopeManager_new ==
    [scopes |-> <<[kind |-> "Module", parent |-> None]>>,
     declarations |-> <<>>,
     labels |-> <<>>,
     references |-> <<>>,
     diagnostics |-> <<>>,
     node_scopes |-> EmptyMap,
     node_declarations |-> EmptyMap,
     node_references |-> EmptyMap,
     node_labels |-> EmptyMap]

root_id == 1

next_scope_id(m) == Len(m.scopes) + 1
next_declaration_id(m) == Len(m.declarations) + 1
next_label_id(m) == Len(m.labels) + 1

add_scope(m, parent, kind) ==
    [m EXCEPT !.scopes = Append(@, [kind |-> kind, parent |-> parent])]

add_declaration(m, scope, name, kind) ==
    [m EXCEPT !.declarations =
        Append(@, [name |-> name, kind |-> kind, scope |-> scope])]

add_label(m, scope, kind, name) ==
    [m EXCEPT !.labels =
        Append(@, [name |-> SomeName(name), kind |-> kind, scope |-> scope])]

add_anonymous_label(m, scope, kind) ==
    [m EXCEPT !.labels = Append(@, [name |-> NoName, kind |-> kind, scope |-> scope])]

\* The most recent declaration of `name` in `scope`, else in the nearest ancestor.
RECURSIVE lookup_declaration(_, _, _)
lookup_declaration(m, scope, name) ==
    LET here == {i \in 1 .. Len(m.declarations) :
                    m.declarations[i].scope = scope /\ m.declarations[i].name = name}
    IN IF here # {}
       THEN CHOOSE i \in here : \A j \in here : j <= i
       ELSE IF m.scopes[scope].parent = None
            THEN None
            ELSE lookup_declaration(m, m.scopes[scope].parent, name)

\* The declaration kinds that are visible before their position in the text.
HoistedKinds == {"Var", "FunctionDeclaration", "Import"}

\* ScopeManager::lookup_reference: the walk of lookup_declaration, where a
\* declaration that is not hoisted counts only when it was created before the
\* use (its id is below the next-declaration-id recorded at the use).
RECURSIVE lookup_reference(_, _, _, _)
lookup_reference(m, scope, name, next_declaration) ==
    LET here == {i \in 1 .. Len(m.declarations) :
                    /\ m.declarations[i].scope = scope
                    /\ m.declarations[i].name = name
                    /\ (m.declarations[i].kind \in HoistedKinds \/ i < next_declaration)}
    IN IF here # {}
       THEN CHOOSE i \in here : \A j \in here : j <= i
       ELSE IF m.scopes[scope].parent = None
            THEN None
            ELSE lookup_reference(m, m.scopes[scope].parent, name, next_declaration)

next_reference_id(m) == Len(m.references) + 1

add_reference(m, scope, kind, declaration) ==
    [m EXCEPT !.references =
        Append(@, [scope |-> scope, kind |-> kind, declaration |-> declaration])]

\* Diagnostic::invalid_syntax(message, range): the range is that of a node.
Diagnostic(message, node) == [message |-> message, node |-> node]

PushDiagnostic(m, message, node) ==
    [m EXCEPT !.diagnostics = Append(@, Diagnostic(message, node))]

(***************************************************************************)
(* Analyzer: the handlers, as functions of the Analyzer `self`             *)
(* ([manager, labels, current, unresolved, ok]; ok = FALSE once an         *)
(* assertion failed).                                                      *)
(***************************************************************************)
Self ==
    [manager |-> manager, labels |-> labels, current |-> current,
     unresolved |-> unresolved, ok |-> TRUE]

\* Analyzer::new
Analyzer_new ==
    [manager |-> ScopeManager_new, labels |-> <<>>, current |-> root_id,
     unresolved |-> <<>>, ok |-> TRUE]

\* Analyzer::enter_label, up to the call of the closure.
push_label(self, id) == [self EXCEPT !.labels = Append(@, id)]

\* An enter_label that leaves the label on the stack.
pop_label_keep(self, id) ==
    IF Len(self.labels) = 0 \/ self.labels[Len(self.labels)] # id
    THEN [self EXCEPT !.ok = FALSE]
    ELSE self

\* Analyzer::enter_label, after the closure: pop, and assert the label popped.
pop_label(self, id) ==
    IF Len(self.labels) = 0 \/ self.labels[Len(self.labels)] # id
    THEN [self EXCEPT !.ok = FALSE]
    ELSE [self EXCEPT !.labels = SubSeq(@, 1, Len(@) - 1)]

\* Analyzer::lookup_break: the label id found, or None.
RECURSIVE LookupBreakFrom(_, _, _)
LookupBreakFrom(self, name, ix) ==
    IF ix = 0
    THEN None
    ELSE LET id == self.labels[ix]
             label == self.manager.labels[id]
         IN IF name # NoName /\ label.name # NoName /\ name = label.name
            THEN id
            ELSE IF name = NoName
                 THEN id
                 ELSE LookupBreakFrom(self, name, ix - 1)

\* A lookup that ignores the name: the innermost label, whatever it is called.
lookup_break_innermost(self, name) ==
    IF Len(self.labels) = 0 THEN None ELSE self.labels[Len(self.labels)]

lookup_break(self, name) == LookupBreakFrom(self, name, Len(self.labels))

\* Analyzer::lookup_continue
RECURSIVE LookupContinueFrom(_, _, _)
LookupContinueFrom(self, name, ix) ==
    IF ix = 0
    THEN None
    ELSE LET id == self.labels[ix]
             label == self.manager.labels[id]
         IN IF name # NoName /\ label.name # NoName /\ name = label.name
            THEN id
            ELSE IF name = NoName
                 THEN id
                 ELSE LookupContinueFrom(self, name, ix - 1)

lookup_continue(self, name) == LookupContinueFrom(self, name, Len(self.labels))

\* Analyzer::enter_scope
enter_scope(self, kind) ==
    [self EXCEPT !.manager = add_scope(@, self.current, kind),
                 !.current = next_scope_id(self.manager)]

\* Analyzer::close_scope
close_scope(self, id) ==
    IF self.current # id \/ self.manager.scopes[self.current].parent = None
    THEN [self EXCEPT !.ok = FALSE]
    ELSE [self EXCEPT !.current = self.manager.scopes[self.current].parent]

\* Analyzer::visit_declaration_identifier with Some(decl_kind)
declare_identifier(self, node, name, decl_kind) ==
    LET previous_declaration == lookup_declaration(self.manager, self.current, name)
        m1 == IF previous_declaration # None
                 /\ self.manager.declarations[previous_declaration].scope = self.current
              THEN PushDiagnostic(self.manager, "Duplicate declaration", node)
              ELSE self.manager
        id == next_declaration_id(m1)
        m2 == add_declaration(m1, self.current, name, decl_kind)
    IN [self EXCEPT !.manager =
            [m2 EXCEPT !.node_declarations = MapPut(@, node, id)]]

\* Analyzer::visit_declaration_identifier with None: a re-assignment.
assign_identifier(self, node, name) ==
    [self EXCEPT !.unresolved =
        Append(@, [scope |-> self.current, ast |-> node, name |-> name,
                   kind |-> "Write",
                   next_declaration |-> next_declaration_id(self.manager)])]

visit_declaration_identifier(self, node, name, decl_kind) ==
    IF decl_kind # "None"
    THEN declare_identifier(self, node, name, decl_kind)
    ELSE assign_identifier(self, node, name)

\* add_declaration made directly by visit_function_declaration and
\* visit_function_expression for the function's own name.
declare_function_name(self, node, name) ==
    LET id == next_declaration_id(self.manager)
        m1 == add_declaration(self.manager, self.current, name, "FunctionDeclaration")
    IN [self EXCEPT !.manager =
            [m1 EXCEPT !.node_declarations = MapPut(@, node, id)]]

\* Analyzer::visit_function, up to the visit of the body: the Function scope and
\* the parameters (identifier patterns; params[i] is declared for node + i).
RECURSIVE DeclareParams(_, _, _, _)
DeclareParams(self, params, node, ix) ==
    IF ix > Len(params)
    THEN self
    ELSE DeclareParams(
            IF params[ix] = "this"
            THEN self
            ELSE visit_declaration_identifier(self, node + ix, params[ix],
                                              "FunctionDeclaration"),
            params, node, ix + 1)

enter_function(self, params, node) ==
    DeclareParams(enter_scope(self, "Function"), params, node, 1)

\* Analyzer::visit_break_statement; node + 1 is the label identifier's node.
visit_break_statement(self, node, name) ==
    LET id == lookup_break(self, name) IN
    IF id # None
    THEN LET nl1 == MapPut(self.manager.node_labels, node, id)
             nl2 == IF name # NoName THEN MapPut(nl1, node + 1, id) ELSE nl1
         IN [self EXCEPT !.manager.node_labels = nl2]
    ELSE [self EXCEPT !.manager = PushDiagnostic(@,
            "Non-syntactic break, could not resolve break target", node)]

\* A continue that rejects a label that is not a loop's: the diagnostic, and no
\* association.
visit_continue_statement_reject_other(self, node, name) ==
    LET range == IF name # NoName THEN node + 1 ELSE node
        id == lookup_continue(self, name)
    IN
    IF id # None /\ self.manager.labels[id].kind = "Loop"
    THEN LET nl1 == MapPut(self.manager.node_labels, node, id)
             nl2 == IF name # NoName THEN MapPut(nl1, node + 1, id) ELSE nl1
         IN [self EXCEPT !.manager.node_labels = nl2]
    ELSE [self EXCEPT !.manager = PushDiagnostic(@,
            IF id # None
            THEN "Invalid continue statement, the named label must be for a loop"
            ELSE "Non-syntactic continue, could not resolve continue target",
            range)]

\* Analyzer::visit_continue_statement; node + 1 is the label identifier's node.
visit_continue_statement(self, node, name) ==
    LET range == IF name # NoName THEN node + 1 ELSE node
        id == lookup_continue(self, name)
    IN
    IF id # None
    THEN LET m1 == IF self.manager.labels[id].kind # "Loop"
                   THEN PushDiagnostic(self.manager,
                          "Invalid continue statement, the named label must be for a loop",
                          range)
                   ELSE self.manager
             nl1 == MapPut(m1.node_labels, node, id)
             nl2 == IF name # NoName THEN MapPut(nl1, node + 1, id) ELSE nl1
         IN [self EXCEPT !.manager = [m1 EXCEPT !.node_labels = nl2]]
    ELSE [self EXCEPT !.manager = PushDiagnostic(@,
            "Non-syntactic continue, could not resolve continue target", range)]

\* The anonymous Loop label of visit_for_statement and visit_for_in_of.
enter_loop_label(self, node) ==
    LET id == next_label_id(self.manager)
        m1 == add_anonymous_label(self.manager, self.current, "Loop")
    IN push_label([self EXCEPT !.manager =
                      [m1 EXCEPT !.node_labels = MapPut(@, node, id)]], id)

\* A for statement that opens its scope for every declaration, var included.
visit_for_statement_scope_for_var(self, node, init, name) ==
    LET s1 == IF init # "none" THEN enter_scope(self, "For") ELSE self
        s2 == IF init # "none"
              THEN visit_declaration_identifier(s1, node + 1, name, DeclKind(init))
              ELSE s1
    IN enter_loop_label(s2, node)

\* Analyzer::visit_for_statement, up to the visit of the body. init is "none", or
\* the kind of a variable declaration of one identifier (node + 1) without
\* initializer; test and update hold no identifier.
visit_for_statement(self, node, init, name) ==
    LET s1 == IF init \in {"let", "const"} THEN enter_scope(self, "For") ELSE self
        s2 == IF init # "none"
              THEN visit_declaration_identifier(s1, node + 1, name, DeclKind(init))
              ELSE s1
    IN enter_loop_label(s2, node)

\* Analyzer::visit_for_in_of, up to the visit of the body. left is "pattern" (an
\* identifier that is assigned) or the kind of a variable declaration of one
\* identifier (node + 1); right holds no identifier.
visit_for_in_of(self, node, left, name) ==
    LET s1 == IF left \in {"let", "const"} THEN enter_scope(self, "For") ELSE self
        s2 == IF left = "pattern"
              THEN visit_declaration_identifier(s1, node + 1, name, "None")
              ELSE visit_declaration_identifier(s1, node + 1, name, DeclKind(left))
    IN enter_loop_label(s2, node)

\* Analyzer::visit_labeled_statement, up to the visit of the body.
LoopStatements == {"for", "forin", "forof", "while", "dowhile"}

visit_labeled_statement(self, node, name, body) ==
    LET kind == IF body \in LoopStatements THEN "Loop" ELSE "Other"
        id == next_label_id(self.manager)
        m1 == add_label(self.manager, self.current, kind, name)
    IN push_label([self EXCEPT !.manager =
                      [m1 EXCEPT !.node_labels = MapPut(@, node, id)]], id)

\* Analyzer::visit_switch_statement, up to the visit of the cases; the
\* discriminant holds no identifier.
visit_switch_statement(self, node) ==
    LET id == next_label_id(self.manager)
        m1 == add_anonymous_label(self.manager, self.current, "Other")
    IN enter_scope(
         push_label([self EXCEPT !.manager =
                        [m1 EXCEPT !.node_labels = MapPut(@, node, id)]], id),
         "Switch")

\* Analyzer::visit_import_declaration_specifier; node + 1 is the local identifier.
visit_import_declaration_specifier(self, node, name) ==
    LET s1 == IF self.manager.scopes[self.current].kind # "Module"
              THEN [self EXCEPT !.manager = PushDiagnostic(@,
                     "import declarations are only allowed at the top-level of a module",
                     node)]
              ELSE self
    IN visit_declaration_identifier(s1, node + 1, name, "Import")

\* Analyzer::visit_variable_declaration: one declarator, an identifier (node + 1),
\* whose initializer holds no identifier.
visit_variable_declaration(self, node, kind, name) ==
    visit_declaration_identifier(self, node + 1, name, DeclKind(kind))

\* Analyzer::visit_reference_identifier
visit_reference_identifier(self, node, name, kind) ==
    [self EXCEPT !.unresolved =
        Append(@, [scope |-> self.current, ast |-> node, name |-> name,
                   kind |-> kind,
                   next_declaration |-> next_declaration_id(self.manager)])]

\* Analyzer::visit_identifier
visit_identifier(self, node, name) ==
    visit_reference_identifier(self, node, name, "Read")

\* Analyzer::visit_assignment_expression. `left` is the form of the left-hand
\* side: "identifier" (x), "array" (an array pattern [x]), "member" (x.p.q, not
\* computed) or "call" (x()); node + 1 is the node of x. The right-hand side
\* holds no identifier.
visit_assignment_expression(self, node, operator, left, name) ==
    IF operator = "="
    THEN CASE left \in {"identifier", "array"} ->
                visit_declaration_identifier(self, node + 1, name, "None")
           [] left = "member" ->
                visit_reference_identifier(self, node + 1, name, "Read")
           [] OTHER ->
                [self EXCEPT !.manager = PushDiagnostic(@,
                    "Invalid AssignmentExpression, expected left-hand side to be a Pattern or MemberExpression",
                    node)]
    ELSE IF left = "identifier"
         THEN visit_reference_identifier(self, node + 1, name, "ReadWrite")
         ELSE [self EXCEPT !.manager = PushDiagnostic(@,
                  "Expected AssignmentExpression.left to be an Identifier when using operator {}",
                  IF left = "array" THEN node + 1 ELSE node)]

\* char::to_ascii_uppercase on a character (a string of length one).
AsciiLowercase ==
    <<"a", "b", "c", "d", "e", "f", "g", "h", "i", "j", "k", "l", "m",
      "n", "o", "p", "q", "r", "s", "t", "u", "v", "w", "x", "y", "z">>
AsciiUppercase ==
    <<"A", "B", "C", "D", "E", "F", "G", "H", "I", "J", "K", "L", "M",
      "N", "O", "P", "Q", "R", "S", "T", "U", "V", "W", "X", "Y", "Z">>

to_ascii_uppercase(c) ==
    IF \E i \in 1 .. 26 : AsciiLowercase[i] = c
    THEN AsciiUppercase[CHOOSE i \in 1 .. 26 : AsciiLowercase[i] = c]
    ELSE c

\* A name as the string of its characters.
RECURSIVE StringOf(_)
StringOf(chars) == IF chars = <<>> THEN "" ELSE Head(chars) \o StringOf(Tail(chars))

\* Analyzer::visit_jsxidentifier
visit_jsxidentifier(self, node, chars) ==
    visit_reference_identifier(self, node, StringOf(chars), "Read")

\* Analyzer::visit_jsxopening_element of an element without attributes. `form`
\* is the form of the element name ("identifier", "member", "namespaced") and
\* root_name the characters of its root identifier, whose node is node + 1.
visit_jsxopening_element(self, node, form, root_name) ==
    IF form = "identifier"
    THEN IF root_name # <<>>
         THEN IF Head(root_name) = to_ascii_uppercase(Head(root_name))
              THEN visit_jsxidentifier(self, node + 1, root_name)
              ELSE self
         ELSE [self EXCEPT !.manager = PushDiagnostic(@,
                  "Expected JSXOpeningElement.name to be non-empty", node + 1)]
    ELSE IF StringOf(root_name) # "this"
         THEN visit_jsxidentifier(self, node + 1, root_name)
         ELSE self

\* Analyzer::visit_jsxclosing_element
visit_jsxclosing_element(self, node) == self

\* Analyzer::complete: the pending references are settled in order.
RECURSIVE CompleteFrom(_, _, _)
CompleteFrom(m, pending, ix) ==
    IF ix > Len(pending)
    THEN m
    ELSE LET reference == pending[ix]
             declaration == lookup_reference(m, reference.scope, reference.name,
                                             reference.next_declaration)
             id == next_reference_id(m)
             m1 == IF declaration # None
                   THEN [add_reference(m, reference.scope, reference.kind, declaration)
                            EXCEPT !.node_references = MapPut(@, reference.ast, id)]
                   ELSE PushDiagnostic(m, "Undefined variable", reference.ast)
         IN CompleteFrom(m1, pending, ix + 1)

\* A completion that drops the references it cannot resolve without a word.
complete_drop_silently(self) ==
    LET m == CompleteFrom(self.manager, self.unresolved, 1)
    IN [m EXCEPT !.diagnostics = self.manager.diagnostics]

complete(self) == CompleteFrom(self.manager, self.unresolved, 1)

\* What remains of a visit_* call after its body was visited: the label popped
\* (enter_label), the scopes closed (enter, close_scope) and the function's scope
\* registered (visit_function), in the order of the code.
RECURSIVE RunLeave(_, _, _)
RunLeave(self, ops, ix) ==
    IF ix > Len(ops) \/ ~self.ok
    THEN self
    ELSE LET op == ops[ix]
             s1 == CASE op.op = "pop_label" -> pop_label(self, op.id)
                     [] op.op = "close_scope" -> close_scope(self, op.id)
                     [] op.op = "node_scope" ->
                          [self EXCEPT !.manager.node_scopes = MapPut(@, op.node, op.id)]
         IN RunLeave(s1, ops, ix + 1)

PopLabel(id) == [op |-> "pop_label", id |-> id, node |-> None]
CloseScope(id) == [op |-> "close_scope", id |-> id, node |-> None]
NodeScope(node, id) == [op |-> "node_scope", id |-> id, node |-> node]


(***************************************************************************)
(* Analyzer actions. The traversal is a depth-first visit of the syntax    *)
(* tree: `frames` holds the visit_* calls in progress. A statement action  *)
(* is the visit_* handler of one statement node up to the visit of its     *)
(* body; Leave is the rest of the innermost handler, after its body.       *)
(***************************************************************************)
LabelNames == {"a", "b"}
Names == {"x", "y"}

\* One open visit_* call: the statement, what remains to do after its body
\* (leave), whether its body is a single statement (single) that was already
\* visited (filled), the statement form its body has (expects), and what the
\* Analyzer was when the call was made (before).
Frame(kind, node, leave, single, expects) ==
    [kind |-> kind, node |-> node, leave |-> leave, single |-> single,
     filled |-> FALSE, expects |-> expects,
     before |-> [current |-> current, labels |-> labels,
                 scopes |-> Len(manager.scopes),
                 label_count |-> Len(manager.labels)]]

\* visit_program: the statements of the program are visited in the root scope.
ProgramFrame == Frame("program", 0, <<>>, FALSE, "any")

Top == frames[Len(frames)]

\* The innermost open statement takes one more statement, of form `kind`.
Accepts(kind) ==
    /\ apc = "visiting"
    /\ stmts < MaxStmts
    /\ (~Top.single \/ ~Top.filled)
    /\ Top.expects \in {"any", kind}

Filled(fs) == [fs EXCEPT ![Len(fs)].filled = TRUE, ![Len(fs)].expects = "any"]

Statement(kind, node, name) == [kind |-> kind, node |-> node, name |-> name]

SetSelf(self) ==
    /\ manager' = self.manager
    /\ labels' = self.labels
    /\ current' = self.current
    /\ unresolved' = self.unresolved
    /\ apc' = IF self.ok THEN "visiting" ELSE "panicked"
    /\ UNCHANGED <<bvars, evars>>

\* A statement with a body was entered: `nodes` syntax-tree nodes were visited.
Entered(self, frame, nodes, name) ==
    /\ SetSelf(self)
    /\ frames' = Append(Filled(frames), frame)
    /\ next_node' = next_node + nodes
    /\ stmts' = stmts + 1
    /\ last' = Statement(frame.kind, frame.node, name)

\* A statement without a body was visited.
Visited(self, kind, nodes, name) ==
    /\ SetSelf(self)
    /\ frames' = Filled(frames)
    /\ next_node' = next_node + nodes
    /\ stmts' = stmts + 1
    /\ last' = Statement(kind, next_node, name)

AnalyzerInit ==
    /\ manager = Analyzer_new.manager
    /\ labels = Analyzer_new.labels
    /\ current = Analyzer_new.current
    /\ unresolved = Analyzer_new.unresolved
    /\ frames = <<ProgramFrame>>
    /\ next_node = 1
    /\ stmts = 0
    /\ last = Statement("program", 0, NoName)
    /\ apc = "visiting"

\* Analyzer::visit_for_statement
ForStatement(init, name) ==
    /\ Accepts("for")
    /\ Len(frames) < MaxDepth
    /\ LET self == visit_for_statement(Self, next_node, init, name)
           label == next_label_id(manager)
           leave == IF init \in {"let", "const"}
                    THEN <<PopLabel(label), CloseScope(next_scope_id(manager))>>
                    ELSE <<PopLabel(label)>>
       IN Entered(self, Frame("for", next_node, leave, TRUE, "any"),
                  IF init = "none" THEN 1 ELSE 2, NoName)

\* Analyzer::visit_for_in_statement, visit_for_of_statement (visit_for_in_of)
ForInOfStatement(form, left, name) ==
    /\ Accepts(form)
    /\ Len(frames) < MaxDepth
    /\ LET self == visit_for_in_of(Self, next_node, left, name)
           label == next_label_id(manager)
           leave == IF left \in {"let", "const"}
                    THEN <<PopLabel(label), CloseScope(next_scope_id(manager))>>
                    ELSE <<PopLabel(label)>>
       IN Entered(self, Frame(form, next_node, leave, TRUE, "any"), 2, NoName)

\* while and do-while: the Analyzer overrides neither visit_while_statement nor
\* visit_do_while_statement, so the test and the body are visited and the
\* Analyzer is left as it is.
WhileStatement(form) ==
    /\ Accepts(form)
    /\ Len(frames) < MaxDepth
    /\ Entered(Self, Frame(form, next_node, <<>>, TRUE, "any"), 1, NoName)

\* Analyzer::visit_labeled_statement; `body` is the form of the labeled statement.
LabeledStatement(name, body) ==
    /\ Accepts("labeled")
    /\ Len(frames) < MaxDepth
    /\ stmts + 1 < MaxStmts
    /\ LET self == visit_labeled_statement(Self, next_node, name, body)
           label == next_label_id(manager)
       IN Entered(self, Frame("labeled", next_node, <<PopLabel(label)>>, TRUE, body),
                  2, SomeName(name))

\* Analyzer::visit_switch_statement; the statements of its cases follow.
SwitchStatement ==
    /\ Accepts("switch")
    /\ Len(frames) < MaxDepth
    /\ LET self == visit_switch_statement(Self, next_node)
           leave == <<CloseScope(next_scope_id(manager)),
                      PopLabel(next_label_id(manager))>>
       IN Entered(self, Frame("switch", next_node, leave, FALSE, "any"), 1, NoName)

\* Analyzer::visit_block_statement
BlockStatement ==
    /\ Accepts("block")
    /\ Len(frames) < MaxDepth
    /\ Entered(enter_scope(Self, "Block"),
               Frame("block", next_node, <<CloseScope(next_scope_id(manager))>>,
                     FALSE, "any"),
               1, NoName)

\* Analyzer::visit_function_declaration; next_node + 1 is the function's name.
FunctionDeclaration(name, params) ==
    /\ Accepts("function")
    /\ Len(frames) < MaxDepth
    /\ LET s1 == declare_function_name(Self, next_node + 1, name)
           scope == next_scope_id(s1.manager)
           self == enter_function(s1, params, next_node + 1)
       IN Entered(self,
                  Frame("function", next_node,
                        <<CloseScope(scope), NodeScope(next_node, scope)>>,
                        FALSE, "any"),
                  2 + Len(params), SomeName(name))

\* Analyzer::visit_function_expression, the expression of an expression statement.
FunctionExpression(name, params) ==
    /\ Accepts("expression")
    /\ Len(frames) < MaxDepth
    /\ LET function_scope == next_scope_id(manager)
           s1 == IF name # NoName
                 THEN declare_function_name(enter_scope(Self, "Function"),
                                            next_node + 1, name[1])
                 ELSE Self
           scope == next_scope_id(s1.manager)
           self == enter_function(s1, params, next_node + 1)
           leave == IF name # NoName
                    THEN <<CloseScope(scope), NodeScope(next_node, scope),
                           CloseScope(function_scope)>>
                    ELSE <<CloseScope(scope), NodeScope(next_node, scope)>>
       IN Entered(self, Frame("function", next_node, leave, FALSE, "any"),
                  2 + Len(params), name)

\* Analyzer::visit_arrow_function_expression, the expression of an expression
\* statement; the body is a block.
ArrowFunctionExpression(params) ==
    /\ Accepts("expression")
    /\ Len(frames) < MaxDepth
    /\ LET scope == next_scope_id(manager)
           self == enter_function(Self, params, next_node)
       IN Entered(self,
                  Frame("function", next_node,
                        <<CloseScope(scope), NodeScope(next_node, scope)>>,
                        FALSE, "any"),
                  1 + Len(params), NoName)

\* A try statement with an empty block: visit_block_statement of the block, then
\* Analyzer::visit_catch_clause up to the statements of the handler body.
\* param is the caught identifier (next_node + 1), or NoName.
TryStatement(param) ==
    /\ Accepts("try")
    /\ Len(frames) < MaxDepth
    /\ LET s1 == close_scope(enter_scope(Self, "Block"), next_scope_id(manager))
           catch_scope == next_scope_id(s1.manager)
           s2 == IF param # NoName
                 THEN visit_declaration_identifier(
                         enter_scope(s1, "CatchClause"), next_node + 1, param[1],
                         "CatchClause")
                 ELSE s1
           body_scope == next_scope_id(s2.manager)
           self == enter_scope(s2, "Block")
           leave == IF param # NoName
                    THEN <<CloseScope(body_scope), CloseScope(catch_scope)>>
                    ELSE <<CloseScope(body_scope)>>
       IN Entered(self, Frame("try", next_node, leave, FALSE, "any"), 2, param)

\* Analyzer::visit_break_statement
BreakStatement(name) ==
    /\ Accepts("break")
    /\ Visited(visit_break_statement(Self, next_node, name), "break",
               IF name # NoName THEN 2 ELSE 1, name)

\* Analyzer::visit_continue_statement
ContinueStatement(name) ==
    /\ Accepts("continue")
    /\ Visited(visit_continue_statement(Self, next_node, name), "continue",
               IF name # NoName THEN 2 ELSE 1, name)

\* Analyzer::visit_variable_declaration
VariableDeclaration(kind, name) ==
    /\ Accepts("variable")
    /\ Visited(visit_variable_declaration(Self, next_node, kind, name), "variable",
               2, SomeName(name))

\* An import declaration with one specifier:
\* Analyzer::visit_import_declaration_specifier
ImportDeclaration(name) ==
    /\ Accepts("import")
    /\ Visited(visit_import_declaration_specifier(Self, next_node, name), "import",
               2, SomeName(name))

\* An expression statement whose expression is an identifier:
\* Analyzer::visit_identifier
IdentifierExpression(name) ==
    /\ Accepts("expression")
    /\ Visited(visit_identifier(Self, next_node, name), "identifier", 1,
               SomeName(name))

\* An expression statement whose expression is an assignment:
\* Analyzer::visit_assignment_expression
AssignmentExpression(operator, left, name) ==
    /\ Accepts("expression")
    /\ Visited(visit_assignment_expression(Self, next_node, operator, left, name),
               "assignment", 2, SomeName(name))

\* An expression statement whose expression is a JSX element without attributes
\* or children: Analyzer::visit_jsxopening_element, then
\* Analyzer::visit_jsxclosing_element unless the element closes itself.
JSXElement(form, root_name, closing) ==
    /\ Accepts("expression")
    /\ LET s1 == visit_jsxopening_element(Self, next_node, form, root_name)
           self == IF closing THEN visit_jsxclosing_element(s1, next_node + 2) ELSE s1
       IN Visited(self, "jsx", IF closing THEN 3 ELSE 2, SomeName(StringOf(root_name)))

\* analyze: visit_program has returned, Analyzer::complete runs.
Complete ==
    /\ apc = "visiting"
    /\ Len(frames) = 1
    /\ manager' = complete(Self)
    /\ apc' = "done"
    /\ last' = Statement("complete", 0, NoName)
    /\ UNCHANGED <<labels, current, unresolved, frames, next_node, stmts>>
    /\ UNCHANGED <<bvars, evars>>

\* The innermost visit_* call returns.
Leave ==
    /\ apc = "visiting"
    /\ Len(frames) > 1
    /\ (Top.single => Top.filled)
    /\ SetSelf(RunLeave(Self, Top.leave, 1))
    /\ frames' = SubSeq(frames, 1, Len(frames) - 1)
    /\ last' = Statement("leave", Top.node, NoName)
    /\ UNCHANGED <<next_node, stmts>>

OptionalLabels == {NoName} \cup {SomeName(l) : l \in LabelNames}
\* The statement forms a labeled statement labels in the label specification.
LabeledBodies == LoopStatements \cup {"block", "switch", "labeled"}

\* The label specification: loops, labeled statements, switch, blocks and
\* functions around break and continue.
LabelNext ==
    \/ \E init \in {"none", "var", "let"} : ForStatement(init, "x")
    \/ \E form \in {"forin", "forof"}, left \in {"pattern", "var", "const"} :
          ForInOfStatement(form, left, "x")
    \/ \E form \in {"while", "dowhile"} : WhileStatement(form)
    \/ \E name \in LabelNames, body \in LabeledBodies : LabeledStatement(name, body)
    \/ SwitchStatement
    \/ BlockStatement
    \/ ArrowFunctionExpression(<<>>)
    \/ FunctionExpression(SomeName("x"), <<>>)
    \/ TryStatement(SomeName("x"))
    \/ \E name \in OptionalLabels : BreakStatement(name)
    \/ \E name \in OptionalLabels : ContinueStatement(name)
    \/ Leave
    \/ Complete

\* The declaration specification: every statement that creates a declaration,
\* in every kind of scope.
ScopeNext ==
    \/ \E kind \in {"var", "let"}, name \in Names : VariableDeclaration(kind, name)
    \/ \E params \in {<<>>, <<"x", "x">>} : FunctionDeclaration("x", params)
    \/ \E name \in {NoName, SomeName("x")} : FunctionExpression(name, <<"x">>)
    \/ ArrowFunctionExpression(<<"this", "y">>)
    \/ ImportDeclaration("x")
    \/ \E param \in {NoName, SomeName("x")} : TryStatement(param)
    \/ ForStatement("const", "x")
    \/ BlockStatement
    \/ Leave
    \/ Complete

\* The reference specification: declarations and uses of identifiers, in
\* expressions and in JSX element names, in nested scopes.
JSXRoots ==
    {<<"d", "i", "v">>, <<"F", "o", "o">>, <<"t", "h", "i", "s">>, <<"_", "x">>}
JSXNames ==
    ({"identifier", "member", "namespaced"} \X JSXRoots)
    \cup {<<"identifier", <<>>>>}

ReferenceNext ==
    \/ \E kind \in {"var", "let"}, name \in {"x", "Foo"} :
            VariableDeclaration(kind, name)
    \/ FunctionDeclaration("x", <<>>)
    \/ ImportDeclaration("x")
    \/ \E name \in {"x", "y"} : IdentifierExpression(name)
    \/ \E operator \in {"=", "+="}, left \in {"identifier", "member", "call"} :
            AssignmentExpression(operator, left, "x")
    \/ \E n \in JSXNames, closing \in BOOLEAN : JSXElement(n[1], n[2], closing)
    \/ BlockStatement
    \/ Leave
    \/ Complete

(***************************************************************************)
(* Builder actions.                                                        *)
(***************************************************************************)
NoHIR == [entry |-> None, blocks |-> <<>>]

\* Builder::new on a fresh Environment.
BuilderInit ==
    /\ env_next_block_id = 1
    /\ entry = 0
    /\ wip = [id |-> 0, kind |-> "Block", instructions |-> <<>>]
    /\ completed = <<>>
    /\ id_gen = InstructionIdGenerator_new
    /\ pushes = 0
    /\ bpc = "building"
    /\ hir = NoHIR

\* Builder::push. The operands of the call (lvalue, value) are the field
\* `value`; every call passes operands of its own.
Push ==
    /\ bpc = "building"
    /\ pushes < MaxPush
    /\ LET n == IdGenNext(id_gen) IN
        /\ wip' = [wip EXCEPT !.instructions =
                        Append(@, [id |-> n.id, value |-> pushes + 1])]
        /\ id_gen' = n.gen
    /\ pushes' = pushes + 1
    /\ UNCHANGED <<env_next_block_id, completed, entry, bpc, hir>>
    /\ UNCHANGED <<avars, evars>>

\* Builder::terminate(terminal, next_kind)
Terminate(terminal, next_kind) ==
    /\ bpc = "building"
    /\ Len(completed) < MaxBlocks
    /\ LET next_wip == [id |-> env_next_block_id, kind |-> next_kind,
                        instructions |-> <<>>]
           prev_wip == wip
           n == IdGenNext(id_gen)
       IN /\ env_next_block_id' = env_next_block_id + 1
          /\ wip' = next_wip
          /\ id_gen' = n.gen
          /\ completed' = MapInsert(completed,
                [id |-> prev_wip.id,
                 kind |-> prev_wip.kind,
                 instructions |-> prev_wip.instructions,
                 terminal |-> [id |-> n.id, value |-> terminal],
                 predecessors |-> {}])
    /\ UNCHANGED <<entry, pushes, bpc, hir>>
    /\ UNCHANGED <<avars, evars>>

\* Builder::build
Build ==
    /\ bpc = "building"
    /\ IF BuildPanics(InitialHIR)
       THEN bpc' = "panicked" /\ hir' = NoHIR
       ELSE bpc' = "built" /\ hir' = BuildResult(InitialHIR)
    /\ UNCHANGED <<env_next_block_id, completed, entry, wip, id_gen, pushes>>
    /\ UNCHANGED <<avars, evars>>

\* The control-flow graph specification: every terminal shape over every
\* block id, blocks without instructions.
GraphNext ==
    \/ \E t \in GraphTerminals : Terminate(t, "Block")
    \/ Build

(***************************************************************************)
(* Builders that share one Environment. A Builder is the record            *)
(* [entry, completed, wip, id_gen, bindings]; an Identifier is the record  *)
(* [id, name, data], data being the address of its IdentifierData cell.    *)
(***************************************************************************)
\* Environment: the block, identifier and type-variable counters.
Environment_new ==
    [next_block_id |-> 0, next_identifier_id |-> 0, next_type_var_id |-> 0]

\* Rc::new(RefCell::new(IdentifierData {..})): a new cell, and its address.
IdentifierData(type_var) ==
    [mutable_range |-> 0, scope |-> None, type_ |-> type_var]
NewCell(cells) == Len(cells) + 1

NoIdentifier == [id |-> None, name |-> NoName, data |-> None]

\* Builder::new
Builder_new(env) ==
    [self |-> [entry |-> env.next_block_id,
               completed |-> <<>>,
               wip |-> [id |-> env.next_block_id, kind |-> "Block",
                        instructions |-> <<>>],
               id_gen |-> InstructionIdGenerator_new,
               bindings |-> EmptyMap],
     env |-> [env EXCEPT !.next_block_id = @ + 1]]

\* Builder::push
Builder_push(self) ==
    LET n == IdGenNext(self.id_gen)
    IN [self EXCEPT !.wip.instructions = Append(@, [id |-> n.id]),
                    !.id_gen = n.gen]

\* Builder::terminate
Builder_terminate(self, env, terminal, next_kind) ==
    LET next_wip == [id |-> env.next_block_id, kind |-> next_kind,
                     instructions |-> <<>>]
        prev_wip == self.wip
        n == IdGenNext(self.id_gen)
    IN [self |-> [self EXCEPT
                    !.wip = next_wip,
                    !.id_gen = n.gen,
                    !.completed = MapInsert(@,
                        [id |-> prev_wip.id,
                         kind |-> prev_wip.kind,
                         instructions |-> prev_wip.instructions,
                         terminal |-> [id |-> n.id, value |-> terminal],
                         predecessors |-> {}])],
        env |-> [env EXCEPT !.next_block_id = @ + 1]]

\* Builder::make_temporary
make_temporary(self, env, cells) ==
    [result |-> [id |-> env.next_identifier_id, name |-> NoName,
                 data |-> NewCell(cells)],
     self |-> self,
     env |-> [env EXCEPT !.next_identifier_id = @ + 1, !.next_type_var_id = @ + 1],
     cells |-> Append(cells, IdentifierData(env.next_type_var_id))]

\* A cache keyed by the name alone.
resolve_binding_identifier_by_name(self, env, cells, name, binding_id) ==
    IF <<name, 0>> \in DOMAIN self.bindings
    THEN [result |-> self.bindings[<<name, 0>>], self |-> self, env |-> env,
          cells |-> cells]
    ELSE LET identifier == [id |-> env.next_identifier_id, name |-> SomeName(name),
                            data |-> NewCell(cells)]
         IN [result |-> identifier,
             self |-> [self EXCEPT !.bindings = MapPut(@, <<name, 0>>, identifier)],
             env |-> [env EXCEPT !.next_identifier_id = @ + 1,
                                 !.next_type_var_id = @ + 1],
             cells |-> Append(cells, IdentifierData(env.next_type_var_id))]

\* Builder::resolve_binding_identifier
resolve_binding_identifier(self, env, cells, name, binding_id) ==
    IF <<name, binding_id>> \in DOMAIN self.bindings
    THEN [result |-> self.bindings[<<name, binding_id>>], self |-> self,
          env |-> env, cells |-> cells]
    ELSE LET identifier == [id |-> env.next_identifier_id, name |-> SomeName(name),
                            data |-> NewCell(cells)]
         IN [result |-> identifier,
             self |-> [self EXCEPT
                         !.bindings = MapPut(@, <<name, binding_id>>, identifier)],
             env |-> [env EXCEPT !.next_identifier_id = @ + 1,
                                 !.next_type_var_id = @ + 1],
             cells |-> Append(cells, IdentifierData(env.next_type_var_id))]

\* estree::Binding of an identifier: absent, Global, Local(id) or Module(id).
AbsentBinding == [kind |-> "None", id |-> None]
GlobalBinding == [kind |-> "Global", id |-> None]
LocalBinding(id) == [kind |-> "Local", id |-> id]
ModuleBinding(id) == [kind |-> "Module", id |-> id]

\* Builder::resolve_binding: the Option<Binding> returned is
\* [kind, identifier], kind "None" for no binding.
resolve_binding(self, env, cells, name, binding) ==
    IF binding.kind \in {"Local", "Module"}
    THEN LET r == resolve_binding_identifier(self, env, cells, name, binding.id)
         IN [r EXCEPT !.result = [kind |-> binding.kind, identifier |-> r.result]]
    ELSE [result |-> [kind |-> binding.kind, identifier |-> NoIdentifier],
          self |-> self, env |-> env, cells |-> cells]

NoCall == [op |-> "none", builder |-> 0, key |-> <<>>, result |-> NoIdentifier]
Call(op, builder, key, result) ==
    [op |-> op, builder |-> builder, key |-> key, result |-> result]

EnvironmentInit ==
    /\ environment = Environment_new
    /\ builders = <<>>
    /\ heap = <<>>
    /\ minted = <<>>
    /\ ret = NoCall
    /\ calls = 0

\* Builder::new on the shared Environment.
NewBuilder ==
    /\ Len(builders) < MaxBuilders
    /\ LET r == Builder_new(environment)
       IN /\ builders' = Append(builders, r.self)
          /\ environment' = r.env
          /\ ret' = Call("new", Len(builders) + 1, <<>>, NoIdentifier)
    /\ UNCHANGED <<heap, minted, calls>>
    /\ UNCHANGED <<bvars, avars>>

\* Builder::push on Builder b.
PushOn(b) ==
    /\ b \in 1 .. Len(builders)
    /\ calls < MaxCalls
    /\ builders' = [builders EXCEPT ![b] = Builder_push(@)]
    /\ ret' = Call("push", b, <<>>, NoIdentifier)
    /\ calls' = calls + 1
    /\ UNCHANGED <<environment, heap, minted>>
    /\ UNCHANGED <<bvars, avars>>

\* Builder::terminate on Builder b.
TerminateOn(b, terminal, next_kind) ==
    /\ b \in 1 .. Len(builders)
    /\ calls < MaxCalls
    /\ LET r == Builder_terminate(builders[b], environment, terminal, next_kind)
       IN /\ builders' = [builders EXCEPT ![b] = r.self]
          /\ environment' = r.env
    /\ ret' = Call("terminate", b, <<>>, NoIdentifier)
    /\ calls' = calls + 1
    /\ UNCHANGED <<heap, minted>>
    /\ UNCHANGED <<bvars, avars>>

\* Builder::make_temporary on Builder b.
MakeTemporary(b) ==
    /\ b \in 1 .. Len(builders)
    /\ calls < MaxCalls
    /\ LET r == make_temporary(builders[b], environment, heap)
       IN /\ builders' = [builders EXCEPT ![b] = r.self]
          /\ environment' = r.env
          /\ heap' = r.cells
          /\ minted' = Append(minted, [builder |-> b, key |-> <<>>,
                                       identifier |-> r.result])
          /\ ret' = Call("make_temporary", b, <<>>, r.result)
    /\ calls' = calls + 1
    /\ UNCHANGED <<bvars, avars>>

\* Builder::resolve_binding on Builder b, for an identifier `name` with `binding`.
ResolveBinding(b, name, binding) ==
    /\ b \in 1 .. Len(builders)
    /\ calls < MaxCalls
    /\ LET r == resolve_binding(builders[b], environment, heap, name, binding)
       IN /\ builders' = [builders EXCEPT ![b] = r.self]
          /\ environment' = r.env
          /\ heap' = r.cells
          /\ minted' = IF r.env # environment
                       THEN Append(minted, [builder |-> b,
                                            key |-> <<name, binding.id>>,
                                            identifier |-> r.result.identifier])
                       ELSE minted
          /\ ret' = Call("resolve_binding", b, <<name, binding>>,
                         r.result.identifier)
    /\ calls' = calls + 1
    /\ UNCHANGED <<bvars, avars>>

\* The caller writes the mutable range of the Identifier returned last, through
\* its cell (identifier.data.borrow_mut()).
Mutate ==
    /\ calls < MaxCalls
    /\ ret.result # NoIdentifier
    /\ ret.op # "mutate"
    /\ heap' = [heap EXCEPT ![ret.result.data].mutable_range = 1]
    /\ ret' = [ret EXCEPT !.op = "mutate"]
    /\ calls' = calls + 1
    /\ UNCHANGED <<environment, builders, minted>>
    /\ UNCHANGED <<bvars, avars>>

BindingNames == {"x", "y"}
Bindings == {AbsentBinding, GlobalBinding, LocalBinding(0), ModuleBinding(1)}

\* The shared-Environment specification: every interleaving of calls on the
\* Builders created from one Environment.
EnvironmentNext ==
    \/ NewBuilder
    \/ \E b \in 1 .. MaxBuilders : PushOn(b)
    \/ \E b \in 1 .. MaxBuilders, k \in BlockKinds :
          TerminateOn(b, ReturnTerminal, k)
    \/ \E b \in 1 .. MaxBuilders : MakeTemporary(b)
    \/ \E b \in 1 .. MaxBuilders, name \in BindingNames, binding \in Bindings :
          ResolveBinding(b, name, binding)
    \/ Mutate

Init == BuilderInit /\ AnalyzerInit /\ EnvironmentInit

EnvironmentSpec == Init /\ [][EnvironmentNext]_vars

GraphSpec == Init /\ [][GraphNext]_vars

\* The instruction specification: instructions are pushed and block kinds vary,
\* over the terminals that decide the order of the blocks.
OrderTerminals ==
    {IfTerminal(c, a, None) : c \in BlockIds, a \in BlockIds}
    \cup {GotoTerminal(b, k) : b \in BlockIds, k \in GotoKinds}
    \cup {ReturnTerminal}

BuilderNext ==
    \/ Push
    \/ \E t \in OrderTerminals, k \in BlockKinds : Terminate(t, k)
    \/ Build

BuilderSpec == Init /\ [][BuilderNext]_vars

\* The result specification: instructions are pushed, block kinds vary, and
\* every terminal shape occurs; a For terminal's body and a DoWhile terminal's
\* test are the block after its init / body.
ResultTerminals ==
    {IfTerminal(c, a, None) : c \in BlockIds, a \in BlockIds}
    \cup {ForTerminal(i, (i + 1) % MaxBlocks, None) : i \in BlockIds}
    \cup {DoWhileTerminal(b, (b + 1) % MaxBlocks) : b \in BlockIds}
    \cup {GotoTerminal(b, "Break") : b \in BlockIds}
    \cup {ReturnTerminal}

ResultNext ==
    \/ Push
    \/ \E t \in ResultTerminals, k \in BlockKinds : Terminate(t, k)
    \/ Build

ResultSpec == Init /\ [][ResultNext]_vars

LabelSpec == Init /\ [][LabelNext]_vars

ScopeSpec == Init /\ [][ScopeNext]_vars

ReferenceSpec == Init /\ [][ReferenceNext]_vars

(***************************************************************************)
(* Vocabulary of the properties.                                           *)
(***************************************************************************)
Built == bpc = "built"

\* The block references a terminal holds.
SuccSet(t) == {successors(t)[i] : i \in 1 .. Len(successors(t))}

TerminalRefs(t) ==
    CASE t.tag = "If" -> {t.consequent, t.alternate}
      [] t.tag = "For" -> {t.init, t.body} \cup ({t.update} \ {None})
      [] t.tag = "DoWhile" -> {t.body, t.test}
      [] t.tag = "Goto" -> {t.block}
      [] t.tag = "Return" -> {}

\* The child edges the reordering walk follows.
WalkChildren(t) ==
    CASE t.tag = "If" -> {t.alternate, t.consequent}
      [] t.tag = "For" -> {t.init}
      [] t.tag = "DoWhile" -> {t.body}
      [] t.tag = "Goto" -> {t.block}
      [] t.tag = "Return" -> {}

\* The blocks of h reachable from its entry along `edges`, as a least fixpoint.
RECURSIVE ReachClosure(_, _)
ReachClosure(h, S) ==
    LET S2 == S \cup UNION {SuccSet(BlockOf(h, a).terminal.value) : a \in S}
        S3 == {b \in S2 : HasBlock(h, b)}
    IN IF S3 = S THEN S ELSE ReachClosure(h, S3)

Reachable(h) == ReachClosure(h, {h.entry} \cap Keys(h.blocks))

\* Position of a block in the map order.
Pos(h, id) == IndexOf(h.blocks, id)

\* The terminal value, and the terminal id, a completed block was given by terminate().
OriginalTerminal(id) == completed[IndexOf(completed, id)].terminal.value
OriginalTerminalId(id) == completed[IndexOf(completed, id)].terminal.id

(***************************************************************************)
(* C1: in the IR returned by build(), the predecessor set of every block B *)
(* is exactly the set of blocks reachable from the entry whose terminal    *)
(* lists B as a successor.                                                 *)
(***************************************************************************)
C1_PredecessorsExact ==
    Built =>
        \A i \in 1 .. Len(hir.blocks) :
            hir.blocks[i].predecessors =
                {a \in Reachable(hir) :
                    hir.blocks[i].id \in SuccSet(BlockOf(hir, a).terminal.value)}

\* A join point with two incoming edges, one of them from a block that is reached
\* again after it was visited, the entry targeted by a reachable terminal, and a
\* completed block outside the map whose terminal targets a block of the map.
C1_Witness ==
    /\ Built
    /\ \E i \in 1 .. Len(hir.blocks) : Cardinality(hir.blocks[i].predecessors) >= 2
    /\ BlockOf(hir, hir.entry).predecessors # {}
    /\ \E j \in 1 .. Len(completed) :
          /\ completed[j].id \notin Keys(hir.blocks)
          /\ SuccSet(completed[j].terminal.value) \cap Keys(hir.blocks) # {}

(***************************************************************************)
(* C2: when every terminal names only blocks completed by terminate, the   *)
(* IR returned by build() has no dangling edge: every block id held by a   *)
(* terminal of the final map is a key of the final map.                    *)
(***************************************************************************)
OnlyCompletedNamed ==
    \A j \in 1 .. Len(completed) :
        TerminalRefs(completed[j].terminal.value) \subseteq Keys(completed)

C2_NoDanglingEdge ==
    (Built /\ OnlyCompletedNamed) =>
        \A i \in 1 .. Len(hir.blocks) :
            TerminalRefs(hir.blocks[i].terminal.value) \subseteq Keys(hir.blocks)

(***************************************************************************)
(* C3: in the returned map, for every edge A -> B the reordering walk      *)
(* follows, B is after A unless B was on the walk's stack when A was       *)
(* visited (a back edge).                                                  *)
(***************************************************************************)
\* The walk of reverse_postorder_blocks with its call stack: for every block, the
\* blocks whose visit was in progress when the block was first visited.
RECURSIVE StackVisit(_, _, _, _)
StackVisit(block_id, h, stack, st) ==
    IF block_id \in st.visited \/ ~HasBlock(h, block_id)
    THEN st
    ELSE
      LET st1 == [visited |-> st.visited \cup {block_id},
                  onstack |-> [b \in DOMAIN st.onstack \cup {block_id} |->
                                  IF b = block_id THEN stack \cup {block_id}
                                  ELSE st.onstack[b]]]
          t == BlockOf(h, block_id).terminal.value
          inner == stack \cup {block_id}
      IN CASE t.tag = "If" ->
                StackVisit(t.consequent, h, inner,
                           StackVisit(t.alternate, h, inner, st1))
           [] t.tag = "For" -> StackVisit(t.init, h, inner, st1)
           [] t.tag = "DoWhile" -> StackVisit(t.body, h, inner, st1)
           [] t.tag = "Goto" -> StackVisit(t.block, h, inner, st1)
           [] t.tag = "Return" -> st1

\* onstack[a]: the blocks on the walk's stack while a is visited (a included).
WalkStacks(h) ==
    StackVisit(h.entry, h, {}, [visited |-> {}, onstack |-> <<>>]).onstack

IsBackEdge(a, b) == b \in WalkStacks(InitialHIR)[a]

C3_ReversePostorder ==
    Built =>
        \A i \in 1 .. Len(hir.blocks) :
            \A b \in WalkChildren(OriginalTerminal(hir.blocks[i].id)) :
                \/ IsBackEdge(hir.blocks[i].id, b)
                \/ Pos(hir, b) > i

\* Three blocks with a forward edge that skips a block, a back edge, and an If
\* whose two children are different blocks.
C3_Witness ==
    /\ Built
    /\ Len(hir.blocks) = 3
    /\ \E i \in 1 .. 3 :
          LET t == OriginalTerminal(hir.blocks[i].id) IN
          t.tag = "If" /\ t.consequent # t.alternate
             /\ ~IsBackEdge(hir.blocks[i].id, t.consequent)
             /\ ~IsBackEdge(hir.blocks[i].id, t.alternate)
    /\ \E i \in 1 .. 3 :
          \E b \in WalkChildren(OriginalTerminal(hir.blocks[i].id)) :
              IsBackEdge(hir.blocks[i].id, b) /\ Pos(hir, b) < i

(***************************************************************************)
(* C4: when build() is called after at least one terminate and returns,    *)
(* the returned map is non-empty and its first block is the entry block.   *)
(***************************************************************************)
C4_EntryFirst ==
    (Built /\ Len(completed) >= 1) =>
        /\ Len(hir.blocks) > 0
        /\ hir.blocks[1].id = entry
        /\ hir.entry = entry

\* A graph with a cycle back to the entry from another block.
C4_Witness ==
    /\ Built
    /\ Len(hir.blocks) >= 2
    /\ \E i \in 2 .. Len(hir.blocks) :
          entry \in SuccSet(hir.blocks[i].terminal.value)

(***************************************************************************)
(* C5: reading the blocks in map order, in each block the instructions and *)
(* then the terminal, the ids strictly increase and none is used twice.    *)
(***************************************************************************)
RECURSIVE FlatIds(_, _)
FlatIds(blocks, i) ==
    IF i > Len(blocks)
    THEN <<>>
    ELSE [k \in 1 .. Len(blocks[i].instructions) |-> blocks[i].instructions[k].id]
         \o <<blocks[i].terminal.id>>
         \o FlatIds(blocks, i + 1)

StrictlyIncreasing(s) == \A k \in 1 .. (Len(s) - 1) : s[k] < s[k + 1]

C5_IdsStrictlyIncrease ==
    Built =>
        LET ids == FlatIds(hir.blocks, 1) IN
        /\ StrictlyIncreasing(ids)
        /\ Cardinality({ids[k] : k \in 1 .. Len(ids)}) = Len(ids)

\* The map order differs from the construction order, so the ids handed out by
\* push and terminate were not increasing in map order; two blocks hold instructions.
C5_Witness ==
    /\ Built
    /\ Len(hir.blocks) = 3
    /\ ~StrictlyIncreasing([i \in 1 .. 3 |-> OriginalTerminalId(hir.blocks[i].id)])
    /\ Cardinality({i \in 1 .. 3 : Len(hir.blocks[i].instructions) >= 1}) >= 2

(***************************************************************************)
(* C6: after build(), a For terminal whose update block is absent from the *)
(* reordered map has update None; one whose update block is present, or    *)
(* whose update was None, keeps its update. The pruning stage changes      *)
(* nothing else.                                                           *)
(***************************************************************************)
ExpectedUpdate(t, keys) ==
    IF t.update # None /\ t.update \notin keys THEN None ELSE t.update

C6_ForUpdatePruned ==
    Built =>
        LET before == AfterReorder(InitialHIR)
            after == AfterForUpdates(InitialHIR)
            keys == Keys(before.blocks)
        IN
        \* the final map
        /\ \A i \in 1 .. Len(hir.blocks) :
              LET orig == OriginalTerminal(hir.blocks[i].id)
                  t == hir.blocks[i].terminal.value
              IN (t.tag = "For") = (orig.tag = "For")
                 /\ (t.tag = "For" =>
                        /\ t.update = ExpectedUpdate(orig, keys)
                        /\ t.init = orig.init
                        /\ t.body = orig.body)
        \* the stage itself
        /\ after.entry = before.entry
        /\ Len(after.blocks) = Len(before.blocks)
        /\ \A i \in 1 .. Len(before.blocks) :
              LET b == before.blocks[i]
                  a == after.blocks[i]
              IN IF b.terminal.value.tag = "For"
                 THEN a = [b EXCEPT !.terminal.value.update =
                                        ExpectedUpdate(b.terminal.value, keys)]
                 ELSE a = b

\* One For whose update block was completed but not reached, so is cleared, and
\* one For whose update block is in the map, so is kept.
C6_Witness ==
    /\ Built
    /\ \E i \in 1 .. Len(hir.blocks) :
          LET orig == OriginalTerminal(hir.blocks[i].id) IN
          /\ orig.tag = "For"
          /\ orig.update \in Keys(completed) \ Keys(hir.blocks)
          /\ hir.blocks[i].terminal.value.update = None
    /\ \E i \in 1 .. Len(hir.blocks) :
          LET orig == OriginalTerminal(hir.blocks[i].id) IN
          /\ orig.tag = "For"
          /\ orig.update \in Keys(hir.blocks)
          /\ hir.blocks[i].terminal.value.update = orig.update

(***************************************************************************)
(* C7: after build(), a block terminated with DoWhile{body, test} whose    *)
(* test block is absent from the reordered map has the terminal            *)
(* Goto{body, Break}; one whose test block is present keeps its DoWhile    *)
(* terminal; no DoWhile with an absent test survives.                      *)
(***************************************************************************)
C7_DoWhileDegraded ==
    Built =>
        \A i \in 1 .. Len(hir.blocks) :
            LET orig == OriginalTerminal(hir.blocks[i].id)
                t == hir.blocks[i].terminal.value
            IN /\ (orig.tag = "DoWhile" /\ orig.test \notin Keys(hir.blocks)) =>
                      t = GotoTerminal(orig.body, "Break")
               /\ (orig.tag = "DoWhile" /\ orig.test \in Keys(hir.blocks)) =>
                      t = orig
               /\ t.tag = "DoWhile" => t.test \in Keys(hir.blocks)

\* One DoWhile whose test block was completed but not reached, and one whose test
\* block is in the map.
C7_Witness ==
    /\ Built
    /\ \E i \in 1 .. Len(hir.blocks) :
          LET orig == OriginalTerminal(hir.blocks[i].id) IN
          /\ orig.tag = "DoWhile"
          /\ orig.test \in Keys(completed) \ Keys(hir.blocks)
          /\ hir.blocks[i].terminal.value = GotoTerminal(orig.body, "Break")
    /\ \E i \in 1 .. Len(hir.blocks) :
          LET orig == OriginalTerminal(hir.blocks[i].id) IN
          /\ orig.tag = "DoWhile"
          /\ orig.test \in Keys(hir.blocks)
          /\ hir.blocks[i].terminal.value.tag = "DoWhile"

(***************************************************************************)
(* Vocabulary of the Analyzer properties.                                  *)
(***************************************************************************)
\* Number of diagnostics with this message at this node's range.
DiagCount(message, node) ==
    Cardinality({i \in 1 .. Len(manager.diagnostics) :
                    manager.diagnostics[i] = Diagnostic(message, node)})

NonSyntacticBreak == "Non-syntactic break, could not resolve break target"

\* The nodes registered for a declaration id.
DeclarationNodes(id) ==
    {n \in DOMAIN manager.node_declarations : manager.node_declarations[n] = id}

\* An earlier declaration with the same name exists in the same scope.
HasEarlierInScope(id) ==
    \E j \in 1 .. (id - 1) :
        /\ manager.declarations[j].name = manager.declarations[id].name
        /\ manager.declarations[j].scope = manager.declarations[id].scope

(***************************************************************************)
(* C8: every declaration created, of any kind, is registered for exactly   *)
(* one node under an id of its own, and has a Duplicate declaration        *)
(* diagnostic exactly when an earlier declaration of the same name exists  *)
(* in the same scope.                                                      *)
(***************************************************************************)
C8_DuplicateDiagnosed ==
    \A id \in 1 .. Len(manager.declarations) :
        /\ Cardinality(DeclarationNodes(id)) = 1
        /\ \A n \in DeclarationNodes(id) :
              DiagCount("Duplicate declaration", n) =
                  IF HasEarlierInScope(id) THEN 1 ELSE 0

(***************************************************************************)
(* C9: an unlabeled break inside loops is associated with the label of the *)
(* innermost enclosing loop (for, for-in, for-of, while, do-while), with   *)
(* no diagnostic.                                                          *)
(***************************************************************************)
\* The innermost open statement that is not a block: the statement a break
\* nested in blocks only is directly inside.
InnermostStatement ==
    LET open == {i \in 1 .. Len(frames) : frames[i].kind \notin {"block", "try"}}
    IN frames[CHOOSE i \in open : \A j \in open : j <= i]

UnlabeledBreakInLoop ==
    /\ last.kind = "break"
    /\ last.name = NoName
    /\ InnermostStatement.kind \in LoopStatements

C9_UnlabeledBreakInnermostLoop ==
    UnlabeledBreakInLoop =>
        /\ InnermostStatement.node \in DOMAIN manager.node_labels
        /\ last.node \in DOMAIN manager.node_labels
        /\ manager.node_labels[last.node] =
              manager.node_labels[InnermostStatement.node]
        /\ DiagCount(NonSyntacticBreak, last.node) = 0

(***************************************************************************)
(* C10: break L resolves to the innermost label on the label stack whose   *)
(* name is exactly L, and maps the statement and its label identifier to   *)
(* it; when no label named L is on the stack, or the stack is empty for an *)
(* unlabeled break, there is exactly one Non-syntactic break diagnostic    *)
(* and no node_labels entry for the statement.                             *)
(***************************************************************************)
\* Positions on the label stack of the labels named `name`.
Named(name) ==
    {ix \in 1 .. Len(labels) : manager.labels[labels[ix]].name = name}

C10_LabeledBreakExact ==
    last.kind = "break" =>
        IF last.name # NoName /\ Named(last.name) # {}
        THEN LET ix == CHOOSE i \in Named(last.name) :
                          \A j \in Named(last.name) : j <= i
             IN /\ last.node \in DOMAIN manager.node_labels
                /\ manager.node_labels[last.node] = labels[ix]
                /\ (last.node + 1) \in DOMAIN manager.node_labels
                /\ manager.node_labels[last.node + 1] = labels[ix]
                /\ DiagCount(NonSyntacticBreak, last.node) = 0
        ELSE (last.name # NoName \/ Len(labels) = 0) =>
                /\ DiagCount(NonSyntacticBreak, last.node) = 1
                /\ last.node \notin DOMAIN manager.node_labels
                /\ (last.node + 1) \notin DOMAIN manager.node_labels

\* A labeled break that resolves past an anonymous label and a label of
\* another name.
C10_Witness ==
    /\ last.kind = "break"
    /\ last.name # NoName
    /\ Len(labels) >= 3
    /\ manager.labels[labels[Len(labels)]].name = NoName
    /\ manager.labels[labels[Len(labels) - 1]].name \notin {NoName, last.name}
    /\ last.node \in DOMAIN manager.node_labels
    /\ manager.labels[manager.node_labels[last.node]].name = last.name

(***************************************************************************)
(* C11: a continue whose resolved label has kind Other emits exactly one   *)
(* must-be-for-a-loop diagnostic and still maps the statement (and its     *)
(* label identifier, if any) to the label; one whose resolved label has    *)
(* kind Loop is mapped with no diagnostic; one that resolves to no label   *)
(* emits exactly one Non-syntactic continue diagnostic and maps nothing.   *)
(***************************************************************************)
NonSyntacticContinue == "Non-syntactic continue, could not resolve continue target"
MustBeLoop == "Invalid continue statement, the named label must be for a loop"

\* The position on the label stack of the label the scan stops at for `name`:
\* the innermost label for no name, the innermost label of that name otherwise;
\* 0 when there is none.
ResolvedPosition(name) ==
    LET found == IF name = NoName THEN 1 .. Len(labels) ELSE Named(name)
    IN IF found = {} THEN 0 ELSE CHOOSE i \in found : \A j \in found : j <= i

\* The nodes a break or continue statement at `node` maps: the statement and,
\* when it names a label, the label identifier.
StatementNodes(node, name) == IF name = NoName THEN {node} ELSE {node, node + 1}

\* The diagnostics of the last statement visited, whatever their message.
DiagnosticsAt(nodes) ==
    {i \in 1 .. Len(manager.diagnostics) : manager.diagnostics[i].node \in nodes}

C11_ContinueLabelKind ==
    last.kind = "continue" =>
        LET ix == ResolvedPosition(last.name)
            nodes == StatementNodes(last.node, last.name)
            range == IF last.name = NoName THEN last.node ELSE last.node + 1
        IN IF ix = 0
           THEN /\ DiagCount(NonSyntacticContinue, range) = 1
                /\ Cardinality(DiagnosticsAt(nodes)) = 1
                /\ nodes \cap DOMAIN manager.node_labels = {}
           ELSE /\ nodes \subseteq DOMAIN manager.node_labels
                /\ \A n \in nodes : manager.node_labels[n] = labels[ix]
                /\ IF manager.labels[labels[ix]].kind = "Loop"
                   THEN DiagnosticsAt(nodes) = {}
                   ELSE /\ DiagCount(MustBeLoop, range) = 1
                        /\ Cardinality(DiagnosticsAt(nodes)) = 1

\* A labeled continue that names the label of a block: diagnosed, and mapped.
C11_Witness ==
    /\ last.kind = "continue"
    /\ last.name # NoName
    /\ ResolvedPosition(last.name) # 0
    /\ manager.labels[labels[ResolvedPosition(last.name)]].kind = "Other"
    /\ DiagCount(MustBeLoop, last.node + 1) = 1
    /\ (last.node + 1) \in DOMAIN manager.node_labels
    /\ manager.node_labels[last.node] = labels[ResolvedPosition(last.name)]

(***************************************************************************)
(* C12: no identifier use is resolved during the traversal; each use is    *)
(* queued with its scope and the next declaration id of that moment, and   *)
(* complete() settles every pending reference exactly once, in order, as   *)
(* either one reference record with a node_references entry or one         *)
(* Undefined variable diagnostic; the references and the Undefined         *)
(* variable diagnostics add up to the pending references, and these        *)
(* diagnostics follow every diagnostic of the traversal.                   *)
(***************************************************************************)
UndefinedVariable == "Undefined variable"

\* The positions of the Undefined variable diagnostics.
UndefinedDiagnostics ==
    {i \in 1 .. Len(manager.diagnostics) :
        manager.diagnostics[i].message = UndefinedVariable}

\* The pending reference ix was settled as a reference record.
SettledAsReference(ix) ==
    LET reference == unresolved[ix] IN
    /\ reference.ast \in DOMAIN manager.node_references
    /\ manager.node_references[reference.ast] \in 1 .. Len(manager.references)
    /\ manager.references[manager.node_references[reference.ast]].scope = reference.scope
    /\ manager.references[manager.node_references[reference.ast]].kind = reference.kind
    /\ DiagCount(UndefinedVariable, reference.ast) = 0

\* The pending reference ix was settled as a diagnostic.
SettledAsUndefined(ix) ==
    /\ unresolved[ix].ast \notin DOMAIN manager.node_references
    /\ DiagCount(UndefinedVariable, unresolved[ix].ast) = 1

\* The statements that use an identifier, and the use they queue.
UseQueued ==
    (last.kind \in {"identifier", "assignment", "jsx"}
        /\ Len(unresolved) > 0
        /\ unresolved[Len(unresolved)].ast = last.node + (IF last.kind = "identifier" THEN 0 ELSE 1))
    => /\ unresolved[Len(unresolved)].scope = current
       /\ unresolved[Len(unresolved)].next_declaration = Len(manager.declarations) + 1

C12_PendingSettledOnce ==
    /\ apc = "visiting" =>
          /\ manager.references = <<>>
          /\ manager.node_references = EmptyMap
          /\ UndefinedDiagnostics = {}
          /\ UseQueued
    /\ apc = "done" =>
          /\ \A ix \in 1 .. Len(unresolved) :
                SettledAsReference(ix) # SettledAsUndefined(ix)
          /\ Len(manager.references) + Cardinality(UndefinedDiagnostics)
                = Len(unresolved)
          /\ Cardinality(DOMAIN manager.node_references) = Len(manager.references)
          \* in the order recorded
          /\ \A i, j \in 1 .. Len(unresolved) :
                (i < j /\ SettledAsReference(i) /\ SettledAsReference(j)) =>
                    manager.node_references[unresolved[i].ast]
                        < manager.node_references[unresolved[j].ast]
          /\ \A i, j \in 1 .. Len(unresolved) :
                (i < j /\ SettledAsUndefined(i) /\ SettledAsUndefined(j)) =>
                    \E a, b \in UndefinedDiagnostics :
                        /\ a < b
                        /\ manager.diagnostics[a].node = unresolved[i].ast
                        /\ manager.diagnostics[b].node = unresolved[j].ast
          \* after the diagnostics of the traversal
          /\ \A a \in UndefinedDiagnostics, b \in 1 .. Len(manager.diagnostics) :
                b \notin UndefinedDiagnostics => b < a

\* A completed analysis in which one use resolved, a later one did not, and the
\* traversal had emitted a diagnostic of its own.
C12_Witness ==
    /\ apc = "done"
    /\ \E i, j \in 1 .. Len(unresolved) :
          i < j /\ SettledAsUndefined(i) /\ SettledAsReference(j)
    /\ \E b \in 1 .. Len(manager.diagnostics) : b \notin UndefinedDiagnostics

(***************************************************************************)
(* C13: the diagnostics returned are empty if and only if every recorded   *)
(* reference resolved to a declaration and no duplicate-declaration,       *)
(* break/continue-label or assignment-target error occurred.               *)
(***************************************************************************)
\* Every pending reference was given a reference record.
EveryReferenceResolved ==
    \A ix \in 1 .. Len(unresolved) :
        unresolved[ix].ast \in DOMAIN manager.node_references

\* Some name is declared twice in one scope.
DuplicateDeclared ==
    \E id \in 1 .. Len(manager.declarations) : HasEarlierInScope(id)

LabelMessages == {NonSyntacticBreak, NonSyntacticContinue, MustBeLoop}
AssignmentMessages ==
    {"Invalid AssignmentExpression, expected left-hand side to be a Pattern or MemberExpression",
     "Expected AssignmentExpression.left to be an Identifier when using operator {}"}

\* A break/continue or assignment-target error was reported.
LabelOrAssignmentError ==
    \E i \in 1 .. Len(manager.diagnostics) :
        manager.diagnostics[i].message \in LabelMessages \cup AssignmentMessages

C13_DiagnosticsEmptyIff ==
    apc = "done" =>
        (manager.diagnostics = <<>>
            <=> (EveryReferenceResolved /\ ~DuplicateDeclared /\ ~LabelOrAssignmentError))

(***************************************************************************)
(* C14: a JSX opening element records a pending Read reference to the root *)
(* identifier of its name if and only if the root name starts with an      *)
(* uppercase letter and is not `this`, whatever the form of the name       *)
(* (identifier, member expression, namespaced name); the closing element   *)
(* records no reference.                                                   *)
(***************************************************************************)
\* The characters of a root name given as a string.
RootChars(name) ==
    CHOOSE chars \in JSXRoots \cup {<<>>} : StringOf(chars) = name

StartsWithUppercaseLetter(name) ==
    /\ RootChars(name) # <<>>
    /\ \E i \in 1 .. 26 : AsciiUppercase[i] = Head(RootChars(name))

\* The pending references recorded for a node.
PendingAt(node) == {ix \in 1 .. Len(unresolved) : unresolved[ix].ast = node}

C14_JSXReferenceByCase ==
    last.kind = "jsx" =>
        /\ (StartsWithUppercaseLetter(last.name[1]) /\ last.name[1] # "this")
              <=> (\E ix \in PendingAt(last.node + 1) :
                      /\ unresolved[ix].kind = "Read"
                      /\ unresolved[ix].name = last.name[1])
        /\ (~(StartsWithUppercaseLetter(last.name[1]) /\ last.name[1] # "this"))
              => PendingAt(last.node + 1) = {}
        /\ PendingAt(last.node + 2) = {}

(***************************************************************************)
(* C16: the Builder holds one open block; terminate(t, k) adds under the   *)
(* open block's id a block with its kind, the instructions pushed since    *)
(* the previous terminate in push order, the terminal t and no             *)
(* predecessor, leaves the completed blocks and the entry as they were     *)
(* without writing over a key, and opens an empty block of kind k under a  *)
(* fresh id; the ids given by push and terminate increase strictly in call *)
(* order.                                                                  *)
(***************************************************************************)
\* The instruction and terminal ids a Builder has given out.
AssignedIds(blocks, open) ==
    {blocks[i].terminal.id : i \in 1 .. Len(blocks)}
    \cup UNION {{blocks[i].instructions[j].id :
                    j \in 1 .. Len(blocks[i].instructions)} : i \in 1 .. Len(blocks)}
    \cup {open.instructions[j].id : j \in 1 .. Len(open.instructions)}

TerminateEffect(t, k) ==
    \* (1) the block added
    /\ Len(completed') = Len(completed) + 1
    /\ LET block == completed'[Len(completed')]
       IN /\ block.id = wip.id
          /\ block.kind = wip.kind
          /\ block.instructions = wip.instructions
          /\ block.terminal.value = t
          /\ block.predecessors = {}
          /\ \A id \in AssignedIds(completed, wip) : id < block.terminal.id
    \* (2) what was completed stays
    /\ wip.id \notin Keys(completed)
    /\ SubSeq(completed', 1, Len(completed)) = completed
    /\ entry' = entry
    \* (3) the block opened
    /\ wip'.kind = k
    /\ wip'.instructions = <<>>
    /\ wip'.id # entry
    /\ wip'.id \notin Keys(completed')

PushEffect ==
    /\ completed' = completed
    /\ entry' = entry
    /\ wip'.id = wip.id
    /\ wip'.kind = wip.kind
    /\ Len(wip'.instructions) = Len(wip.instructions) + 1
    /\ SubSeq(wip'.instructions, 1, Len(wip.instructions)) = wip.instructions
    /\ \A id \in AssignedIds(completed, wip) :
          id < wip'.instructions[Len(wip'.instructions)].id

C16_PushTerminateFrame ==
    [][/\ Push => PushEffect
       /\ \A t \in OrderTerminals, k \in BlockKinds :
             Terminate(t, k) => TerminateEffect(t, k)]_vars

\* A Builder that completed two blocks, the second with its two instructions
\* and a terminal of its own, and holds an open block of kind Value.
C16_Witness ==
    /\ bpc = "building"
    /\ Len(completed) = 2
    /\ Len(completed[2].instructions) = 2
    /\ completed[2].kind = "Value"
    /\ completed[2].terminal.value # completed[1].terminal.value
    /\ wip.kind = "Value"
    /\ wip.id \notin Keys(completed)

(***************************************************************************)
(* C15: the ids handed out to Builders that share one Environment are      *)
(* unique within it: no two blocks share a block id, no two identifiers    *)
(* created for different keys share an identifier id, and no two           *)
(* instructions or terminals share an instruction id.                      *)
(***************************************************************************)
\* The block ids a Builder holds: its completed blocks and its open block.
BlockIdsOf(self) == Keys(self.completed) \cup {self.wip.id}

\* The number of instructions and terminals a Builder holds.
InstructionCount(self) ==
    Len(self.wip.instructions) + Len(self.completed)
    + Cardinality({<<i, j>> \in (1 .. Len(self.completed)) \X (1 .. MaxCalls) :
                      j <= Len(self.completed[i].instructions)})

UniqueBlockIds ==
    /\ \A b \in 1 .. Len(builders) :
          Cardinality(BlockIdsOf(builders[b])) = Len(builders[b].completed) + 1
    /\ \A b1, b2 \in 1 .. Len(builders) :
          b1 # b2 => BlockIdsOf(builders[b1]) \cap BlockIdsOf(builders[b2]) = {}

UniqueIdentifierIds ==
    \A i, j \in 1 .. Len(minted) :
        i # j => minted[i].identifier.id # minted[j].identifier.id

UniqueInstructionIds ==
    /\ \A b \in 1 .. Len(builders) :
          Cardinality(AssignedIds(builders[b].completed, builders[b].wip))
              = InstructionCount(builders[b])
    /\ \A b1, b2 \in 1 .. Len(builders) :
          b1 # b2 =>
              AssignedIds(builders[b1].completed, builders[b1].wip)
                  \cap AssignedIds(builders[b2].completed, builders[b2].wip) = {}

C15_IdsUniqueInEnvironment ==
    UniqueBlockIds /\ UniqueIdentifierIds /\ UniqueInstructionIds

(***************************************************************************)
(* C17: resolve_binding is a stable cache keyed by (name, binding id):     *)
(* the first call for a key mints an identifier id and a type variable,    *)
(* every later call for it returns the same id and the same metadata cell  *)
(* (a write through one is seen through the other), different keys have    *)
(* different ids, and a Global or absent binding mints nothing and leaves  *)
(* the cache as it is.                                                     *)
(***************************************************************************)
\* The identifier ids that exist in the Environment.
MintedIds == {minted[i].identifier.id : i \in 1 .. Len(minted)}

ResolveBindingEffect(b, name, binding) ==
    LET key == <<name, binding.id>>
        cache == builders[b].bindings
    IN IF binding.kind \in {"Local", "Module"}
       THEN IF key \in DOMAIN cache
            THEN \* a later call: the cached Identifier, and nothing minted
                 /\ ret'.result = cache[key]
                 /\ environment' = environment
                 /\ builders' = builders
                 /\ heap' = heap
            ELSE \* the first call: a new id, type variable and cell
                 /\ ret'.result.id = environment.next_identifier_id
                 /\ ret'.result.id \notin MintedIds
                 /\ ret'.result.data \notin DOMAIN heap
                 /\ heap'[ret'.result.data].type_ = environment.next_type_var_id
                 /\ environment'.next_identifier_id = environment.next_identifier_id + 1
                 /\ environment'.next_type_var_id = environment.next_type_var_id + 1
                 /\ DOMAIN builders'[b].bindings = DOMAIN cache \cup {key}
                 /\ builders'[b].bindings[key] = ret'.result
                 /\ \A k \in DOMAIN cache : builders'[b].bindings[k] = cache[k]
       ELSE /\ ret'.result = NoIdentifier
            /\ environment' = environment
            /\ builders' = builders
            /\ heap' = heap

\* Different keys of a Builder have different identifier ids and cells.
CacheKeysDistinct ==
    \A b \in 1 .. Len(builders) :
        \A k1, k2 \in DOMAIN builders[b].bindings :
            k1 # k2 =>
                /\ builders[b].bindings[k1].id # builders[b].bindings[k2].id
                /\ builders[b].bindings[k1].data # builders[b].bindings[k2].data

\* A write made through the Identifier a call returned is read through the
\* Identifier the cache holds for the key.
WriteSeenThroughCache ==
    (ret.op = "mutate" /\ ret.key # <<>> /\ ret.key[2].kind \in {"Local", "Module"})
    => heap[builders[ret.builder].bindings[<<ret.key[1], ret.key[2].id>>].data]
            .mutable_range = 1

C17_ResolveBindingCache ==
    /\ [](CacheKeysDistinct /\ WriteSeenThroughCache)
    /\ [][\A b \in 1 .. MaxBuilders, name \in BindingNames, binding \in Bindings :
             ResolveBinding(b, name, binding)
                 => ResolveBindingEffect(b, name, binding)]_vars

\* A Builder that resolved the same name under two binding ids, then the first
\* key again, and wrote through the Identifier that last call returned.
C17_Witness ==
    /\ ret.op = "mutate"
    /\ ret.key # <<>>
    /\ ret.key[2].kind = "Local"
    /\ Len(minted) >= 2
    /\ minted[1].builder = ret.builder
    /\ minted[2].builder = ret.builder
    /\ minted[1].key = <<ret.key[1], ret.key[2].id>>
    /\ Len(minted[2].key) = 2
    /\ minted[2].key[1] = ret.key[1]
    /\ ret.result = minted[1].identifier
    /\ calls >= 4

(***************************************************************************)
(* C18: a for, for-in or for-of statement opens one new For scope exactly  *)
(* when its init/left is a let or const declaration, and then declares and *)
(* visits its body inside it; in every case one new anonymous Loop label   *)
(* is on top of the label stack while the body is visited; after the       *)
(* statement the current scope and the label stack are what they were.     *)
(***************************************************************************)
ForForms == {"for", "forin", "forof"}

\* The init/left of the for statement of frame f is a let or const declaration
\* (its identifier is the node after the statement's).
BlockScopedInit(f) ==
    /\ (f.node + 1) \in DOMAIN manager.node_declarations
    /\ manager.declarations[manager.node_declarations[f.node + 1]].kind
          \in {"Let", "Const"}

\* The scope and the label the statement of frame f would create first.
FirstScope(f) == f.before.scopes + 1
FirstLabel(f) == f.before.label_count + 1

\* The scope the body of the for statement of frame f is visited in.
BodyScope(f) == IF BlockScopedInit(f) THEN FirstScope(f) ELSE f.before.current

ForBodyState(f) ==
    /\ current = BodyScope(f)
    /\ labels = Append(f.before.labels, FirstLabel(f))
    /\ manager.labels[FirstLabel(f)].name = NoName
    /\ manager.labels[FirstLabel(f)].kind = "Loop"
    /\ BlockScopedInit(f) =>
          /\ manager.scopes[FirstScope(f)].kind = "For"
          /\ manager.scopes[FirstScope(f)].parent = f.before.current
          /\ manager.declarations[manager.node_declarations[f.node + 1]].scope
                = FirstScope(f)

\* The for statement of frame f was just entered: what it created.
ForEntryState(f) ==
    /\ Len(manager.scopes) = f.before.scopes + (IF BlockScopedInit(f) THEN 1 ELSE 0)
    /\ Len(manager.labels) = f.before.label_count + 1

C18_State ==
    /\ (apc = "visiting" /\ Top.kind \in ForForms) => ForBodyState(Top)
    /\ (apc = "visiting" /\ Top.kind \in ForForms /\ last.kind = Top.kind
            /\ last.node = Top.node) => ForEntryState(Top)
    /\ \A i \in 1 .. (Len(frames) - 1) :
          frames[i].kind \in ForForms =>
              /\ frames[i + 1].before.current = BodyScope(frames[i])
              /\ frames[i + 1].before.labels
                    = Append(frames[i].before.labels, FirstLabel(frames[i]))

C18_ForScopeAndLabel ==
    /\ []C18_State
    /\ [][(Leave /\ Top.kind \in ForForms) =>
             /\ current' = Top.before.current
             /\ labels' = Top.before.labels]_vars

\* A for-of over a const declaration, inside a for with a var declaration, whose
\* body (a break) was visited.
C18_Witness ==
    /\ apc = "visiting"
    /\ Len(frames) = 3
    /\ frames[2].kind = "for"
    /\ ~BlockScopedInit(frames[2])
    /\ (frames[2].node + 1) \in DOMAIN manager.node_declarations
    /\ frames[3].kind = "forof"
    /\ BlockScopedInit(frames[3])
    /\ last.kind = "break"
    /\ current = FirstScope(frames[3])

(***************************************************************************)
(* C19: scope entry/exit and label push/pop are balanced: a visit leaves   *)
(* the current scope and the label stack as they were before it, the       *)
(* assertions of close_scope and enter_label never fail, close_scope is    *)
(* never applied to the root scope, and when complete() runs the current   *)
(* scope is the root and the label stack is empty.                         *)
(***************************************************************************)
C19_State ==
    /\ apc # "panicked"
    /\ apc = "done" => (current = root_id /\ labels = <<>>)
    /\ Len(frames) = 1 => (current = root_id /\ labels = <<>>)

C19_Balanced ==
    /\ []C19_State
    /\ [][/\ Leave => (current' = Top.before.current /\ labels' = Top.before.labels)
          /\ (Len(frames') = Len(frames) /\ apc' = "visiting") =>
                (current' = current /\ labels' = labels)]_vars

\* A completed traversal that entered a named function expression, a switch
\* and a for statement with its own scope.
C19_Witness ==
    /\ apc = "done"
    /\ \E s \in 1 .. Len(manager.scopes) : manager.scopes[s].kind = "Switch"
    /\ \E s \in 1 .. Len(manager.scopes) : manager.scopes[s].kind = "For"
    /\ Cardinality({s \in 1 .. Len(manager.scopes) :
                       manager.scopes[s].kind = "Function"}) >= 2
    /\ Len(manager.labels) >= 2

(***************************************************************************)
(* C20: a break or continue is only associated with a label whose          *)
(* statement encloses it within the same function; in a function nested in *)
(* a loop, switch or labeled statement, a break or continue that has no    *)
(* label of the function's own to resolve to is diagnosed as               *)
(* non-syntactic.                                                          *)
(***************************************************************************)
\* The innermost open function, 0 when the statement is not inside a function.
InnermostFunction ==
    LET fs == {i \in 1 .. Len(frames) : frames[i].kind = "function"}
    IN IF fs = {} THEN 0 ELSE CHOOSE i \in fs : \A j \in fs : j <= i

\* The open statements that created label id.
LabelOwners(id) ==
    {i \in 1 .. Len(frames) :
        /\ frames[i].kind \in ForForms \cup {"labeled", "switch"}
        /\ FirstLabel(frames[i]) = id}

C20_LabelWithinFunction ==
    (last.kind \in {"break", "continue"} /\ InnermostFunction # 0) =>
        /\ last.node \in DOMAIN manager.node_labels =>
              \E i \in LabelOwners(manager.node_labels[last.node]) :
                  i > InnermostFunction
        /\ (\A i \in (InnermostFunction + 1) .. Len(frames) :
                frames[i].kind \notin ForForms \cup {"labeled", "switch"}) =>
              /\ last.node \notin DOMAIN manager.node_labels
              /\ DiagCount(IF last.kind = "break" THEN NonSyntacticBreak
                           ELSE NonSyntacticContinue, last.node) = 1

(***************************************************************************)
(* C21: an unlabeled continue whose innermost enclosing loop is a for,     *)
(* for-in or for-of statement is associated with that loop's label, with   *)
(* no diagnostic, even when switch statements lie between the continue and *)
(* the loop.                                                               *)
(***************************************************************************)
\* The open for statements with only switch statements, blocks and try
\* statements (at least one switch) between them and the statement visited.
LoopsBelowSwitch ==
    {i \in 1 .. Len(frames) :
        /\ frames[i].kind \in ForForms
        /\ \A k \in (i + 1) .. Len(frames) :
              frames[k].kind \in {"switch", "block", "try"}
        /\ \E k \in (i + 1) .. Len(frames) : frames[k].kind = "switch"}

C21_ContinueSkipsSwitch ==
    (last.kind = "continue" /\ last.name = NoName) =>
        \A i \in LoopsBelowSwitch :
            /\ last.node \in DOMAIN manager.node_labels
            /\ manager.node_labels[last.node] = FirstLabel(frames[i])
            /\ DiagCount(MustBeLoop, last.node) = 0
            /\ DiagCount(NonSyntacticContinue, last.node) = 0

(***************************************************************************)
(* C22: the keys of the block map build() returns are exactly the          *)
(* completed blocks reachable from the entry over the child edges of the   *)
(* reordering walk (If: consequent and alternate; For: init; DoWhile:      *)
(* body; Goto: block); every kept block keeps its id, kind and the         *)
(* instructions pushed into it, in order; the block open when build() is   *)
(* called, and the instructions pushed into it, are not in the result.     *)
(***************************************************************************)
\* The blocks a terminal's child edges lead to.
ChildEdges(t) ==
    CASE t.tag = "If" -> {t.consequent, t.alternate}
      [] t.tag = "For" -> {t.init}
      [] t.tag = "DoWhile" -> {t.body}
      [] t.tag = "Goto" -> {t.block}
      [] t.tag = "Return" -> {}

\* The completed blocks reachable from the set `ids` over child edges.
RECURSIVE ReachedFrom(_)
ReachedFrom(ids) ==
    LET more == UNION {ChildEdges(completed[i].terminal.value) :
                          i \in {j \in 1 .. Len(completed) : completed[j].id \in ids}}
        all == ids \cup (more \cap Keys(completed))
    IN IF all = ids THEN ids ELSE ReachedFrom(all)

ReachableCompleted == ReachedFrom({entry} \cap Keys(completed))

\* The operands of a block's instructions, in order.
Operands(block) ==
    [k \in 1 .. Len(block.instructions) |-> block.instructions[k].value]

C22_ResultIsReachableCompleted ==
    Built =>
        /\ Keys(hir.blocks) = ReachableCompleted
        /\ Cardinality(Keys(hir.blocks)) = Len(hir.blocks)
        /\ \A i \in 1 .. Len(hir.blocks) :
              LET c == completed[IndexOf(completed, hir.blocks[i].id)]
              IN /\ hir.blocks[i].kind = c.kind
                 /\ Operands(hir.blocks[i]) = Operands(c)
        /\ wip.id \notin Keys(hir.blocks)
        /\ \A i \in 1 .. Len(hir.blocks), k \in 1 .. Len(wip.instructions) :
              \A j \in 1 .. Len(hir.blocks[i].instructions) :
                  hir.blocks[i].instructions[j].value # wip.instructions[k].value

\* A result that dropped a completed block which a kept For terminal names as
\* its body, kept a Value block with an instruction, and was built while the
\* open block held an instruction.
C22_Witness ==
    /\ Built
    /\ Len(completed) = 3
    /\ Len(hir.blocks) = 2
    /\ \E i \in 1 .. Len(hir.blocks) :
          /\ hir.blocks[i].terminal.value.tag = "For"
          /\ hir.blocks[i].terminal.value.body \in Keys(completed) \ Keys(hir.blocks)
    /\ \E i \in 1 .. Len(hir.blocks) :
          /\ hir.blocks[i].kind = "Value"
          /\ Len(hir.blocks[i].instructions) >= 1
    /\ Len(wip.instructions) >= 1

====
